---------------------------- MODULE Spec2Model ----------------------------
(***************************************************************************)
(* A state-machine model of simple-pdf's document writer (src/pdf/mod.rs,  *)
(* src/pdf/types.rs): the object graph of ObjRef nodes, PDFWrite's         *)
(* registration of nodes (add_object, create_root) and PDFWrite::write,    *)
(* which serialises the registered nodes, the cross-reference table and    *)
(* the trailer.                                                            *)
(*                                                                         *)
(* A node is named by the slot 1..NumNodes it was allocated in.  The value *)
(* a node wraps is a Dict; deps[n] is the set of nodes that Dict holds as  *)
(* entries (the entry for node m is stored under the key /K).  A Dict is   *)
(* shared and interior-mutable, so entries can be added at any time.       *)
(*                                                                         *)
(* The content builder (src/graphics): a GraphicContext holds the current  *)
(* graphics state and the content stream; render(drawable) brings the      *)
(* state to the drawable's colours and lets the drawable append its own    *)
(* commands.                                                               *)
(***************************************************************************)
EXTENDS Integers, Sequences, FiniteSets, TLC

\* ------------------------------------------------------------- bounds
\* the size of the object graph: allocated nodes plus Dict entries
MaxSize == 5

\* the slots nodes are allocated in: a graph of MaxSize nodes and entries
\* has at most this many nodes when every node but one carries an entry
NumNodes == (MaxSize + 1) \div 2

Nodes == 1..NumNodes

\* ---------------------------------------------------- program constants
\* Option::None of the Cell<Option<usize>> / Option<Rc<..>> fields.
None == -1
\* "%PDF-1.4\n%" + four 3-byte characters + "\n", as the source line stands.
HeaderLen == 23
\* generation of the implicit free record of the cross-reference table
FreeGen == 65535
\* the generations a caller passes to ObjRef::new
Gens == {0}

VARIABLES
    kind,       \* kind[n]: "Absent" (slot not allocated), "Indirect", "Direct"
    gen,        \* gen[n]: ObjRef::Indirect.gen
    deps,       \* deps[n]: nodes held as entries of the Dict node n wraps
    num,        \* num[n]: ObjRef::Indirect.num (None until assigned)
    objects,    \* PDFWrite.objects
    cur_num,    \* PDFWrite.cur_num
    trailer,    \* PDFWrite.trailer
    output,     \* PDFWrite.output: pos, and the sink: the chunks it has
                \* accepted (buf), the write calls it has received (calls)
                \* and whether it has answered one with an error (failed)
    crt,        \* the CRT of PDFWrite::write: [entries, size]
    status,     \* "building", "written", "io_error", "panic", "stack_overflow",
                \* "missing_value"
    panic,      \* the message of the panic that ended the program, or ""
    current,    \* GraphicContext.current: [api, context_type, fill, stroke]
    stream,     \* GraphicContext.stream: the pieces appended so far
    consumed,   \* the GraphicContext was moved into compile
    items,      \* Dict.items of the header mapping a Stream shares
    calls,      \* the add_entry / add_optional calls made on that Dict
    block,      \* the Stream: [made, data]
    pages,      \* PDF.pages: the content stream of each Page added
    pc,         \* the statement of PDF::write that runs next
    unset,      \* the deferred-value nodes whose value was not supplied yet
    result,     \* what the last call of assign returned
    builder,    \* a Path under construction: [path, cur]
    graphic,    \* the GraphicPath a terminal operation made of it
    text        \* a Text under construction: [parts, font, pos]

vars == <<kind, gen, deps, num, objects, cur_num, trailer, output, crt,
          status, panic, current, stream, consumed, items, calls, block,
          pages, pc, unset, result, builder, graphic, text>>

\* the content builder
gvars == <<current, stream, consumed>>

\* the header mapping and the Stream
dvars == <<items, calls, block>>

\* the document (lib.rs) and the deferred values
pvars == <<pages, pc, unset, result>>

\* the builders of drawables (graphics/path.rs, graphics/text.rs)
bvars == <<builder, graphic, text>>

\* ------------------------------------------------------------ helpers
RECURSIVE Perms(_)
Perms(S) ==
    IF S = {} THEN {<<>>}
    ELSE UNION {{<<x>> \o p : p \in Perms(S \ {x})} : x \in S}

Range(s) == {s[i] : i \in 1..Len(s)}

RECURSIVE SumCard(_, _)
SumCard(d, k) == IF k = 0 THEN 0 ELSE Cardinality(d[k]) + SumCard(d, k - 1)

\* the number of entries held by all Dicts together
TotalEntries == SumCard(deps, NumNodes)

\* allocated nodes plus entries
GraphSize == Cardinality({n \in Nodes : kind[n] # "Absent"}) + TotalEntries

\* the slot the next allocation uses
IsFresh(n) ==
    /\ kind[n] = "Absent"
    /\ \A m \in Nodes : m < n => kind[m] # "Absent"

\* The iteration orders the Dicts (HashMaps) can have: ord[n] is the order
\* in which the entries of node n's Dict are visited.
RECURSIVE OrdersUpTo(_, _)
OrdersUpTo(d, k) ==
    IF k = 0 THEN {<<>>}
    ELSE {Append(f, p) : f \in OrdersUpTo(d, k - 1), p \in Perms(d[k])}

DepOrders(d) == OrdersUpTo(d, NumNodes)

\* ----------------------------------------------------------- ObjRef
\* mutant: an identity that is already set is overwritten
assign_num_Overwrite(k, numf, o, new_num) ==
    IF k[o] = "Direct" THEN [res |-> "DirectObject", num |-> numf]
    ELSE [res |-> "Ok", num |-> [numf EXCEPT ![o] = new_num]]

\* Object::assign_num on node o of a graph with kinds k and numbers numf
assign_num(k, numf, o, new_num) ==
    IF k[o] = "Direct" THEN [res |-> "DirectObject", num |-> numf]
    ELSE IF numf[o] # None THEN [res |-> "AlreadyAssigned", num |-> numf]
    ELSE [res |-> "Ok", num |-> [numf EXCEPT ![o] = new_num]]

\* Object::is_indirect
is_indirect(k, o) == k[o] = "Indirect"

\* Object::dependent_objects: the nodes directly nested in o's value, in the
\* iteration order of the Dict
dependent_objects(o, ord) == ord[o]

\* ---------------------------------------------------------- PDFWrite
\* PDFWrite::add_object on writer state w = [kind, num, objects, cur_num,
\* overflow, ret]; ret is the node the call returns.  stack is the set of
\* nodes whose add_object call is active.
\* The recursion into the dependencies does not depend on the result of
\* assign_num, so a call on a node that is already on the call stack repeats
\* forever: the call stack overflows and the process is killed.
RECURSIVE add_object(_, _, _, _)
RECURSIVE add_dependents(_, _, _, _)

\* the call returns o, unless the process was killed
add_object_return(w, o) == IF w.overflow THEN w ELSE [w EXCEPT !.ret = o]

\* self.objects.push(o.clone()); self.cur_num += 1
add_object_push(w, o) ==
    [w EXCEPT !.objects = Append(@, o), !.cur_num = @ + 1]

\* mutant: the node is pushed and the counter advanced whatever assign_num
\* answers
add_object_PushAlways(w, o, ord, stack) ==
    IF o \in stack THEN [w EXCEPT !.overflow = TRUE]
    ELSE add_object_return(
             add_dependents(
                 add_object_push(
                     [w EXCEPT !.num = assign_num(w.kind, w.num, o,
                                                  w.cur_num).num], o),
                 dependent_objects(o, ord), ord, stack \cup {o}),
             o)

\* mutant: the counter advances whatever assign_num answers
add_object_CountAlways(w, o, ord, stack) ==
    IF o \in stack THEN [w EXCEPT !.overflow = TRUE]
    ELSE add_object_return(
             add_dependents(
                 IF assign_num(w.kind, w.num, o, w.cur_num).res = "Ok"
                 THEN add_object_push(
                          [w EXCEPT !.num = assign_num(w.kind, w.num, o,
                                                       w.cur_num).num], o)
                 ELSE [w EXCEPT !.cur_num = @ + 1],
                 dependent_objects(o, ord), ord, stack \cup {o}),
             o)

\* mutant: the dependencies are walked only when the node itself was bound
add_object_WalkIfBound(w, o, ord, stack) ==
    IF o \in stack THEN [w EXCEPT !.overflow = TRUE]
    ELSE IF assign_num(w.kind, w.num, o, w.cur_num).res = "Ok"
    THEN add_object_return(
             add_dependents(
                 add_object_push(
                     [w EXCEPT !.num = assign_num(w.kind, w.num, o,
                                                  w.cur_num).num], o),
                 dependent_objects(o, ord), ord, stack \cup {o}),
             o)
    ELSE add_object_return(w, o)

\* mutant: only the node itself is registered, not its dependencies
add_object_NoWalk(w, o, ord, stack) ==
    IF assign_num(w.kind, w.num, o, w.cur_num).res = "Ok"
    THEN add_object_return(
             add_object_push(
                 [w EXCEPT !.num = assign_num(w.kind, w.num, o,
                                              w.cur_num).num], o),
             o)
    ELSE add_object_return(w, o)

add_object(w, o, ord, stack) ==
    IF o \in stack THEN [w EXCEPT !.overflow = TRUE]
    ELSE add_object_return(
             add_dependents(
                 IF assign_num(w.kind, w.num, o, w.cur_num).res = "Ok"
                 THEN add_object_push(
                          [w EXCEPT !.num = assign_num(w.kind, w.num, o,
                                                       w.cur_num).num], o)
                 ELSE w,
                 dependent_objects(o, ord), ord, stack \cup {o}),
             o)

add_dependents(w, objs, ord, stack) ==
    IF objs = <<>> \/ w.overflow THEN w
    ELSE add_dependents(add_object(w, Head(objs), ord, stack),
                        Tail(objs), ord, stack)

Writer == [kind |-> kind, num |-> num, objects |-> objects,
           cur_num |-> cur_num, overflow |-> FALSE, ret |-> None]

\* ObjRef::new(gen, data) with a fresh, empty Dict as data
ObjRefNew(n, g) ==
    /\ status = "building"
    /\ IsFresh(n)
    /\ GraphSize < MaxSize
    /\ kind' = [kind EXCEPT ![n] = "Indirect"]
    /\ gen' = [gen EXCEPT ![n] = g]
    /\ UNCHANGED <<deps, num, objects, cur_num, trailer, output, crt,
                   status, panic>>
    /\ UNCHANGED <<gvars, dvars, pvars, bvars>>

\* ObjRef::Direct { data } with a fresh, empty Dict as data
DirectNew(n) ==
    /\ status = "building"
    /\ IsFresh(n)
    /\ GraphSize < MaxSize
    /\ kind' = [kind EXCEPT ![n] = "Direct"]
    /\ UNCHANGED <<gen, deps, num, objects, cur_num, trailer, output, crt,
                   status, panic>>
    /\ UNCHANGED <<gvars, dvars, pvars, bvars>>

\* Dict::add_entry on the Dict of node n, the entry being node m
DictAddEntry(n, m) ==
    /\ status = "building"
    /\ kind[n] # "Absent"
    /\ kind[m] # "Absent"
    /\ m \notin deps[n]
    /\ GraphSize < MaxSize
    /\ deps' = [deps EXCEPT ![n] = @ \cup {m}]
    /\ UNCHANGED <<kind, gen, num, objects, cur_num, trailer, output, crt,
                   status, panic>>
    /\ UNCHANGED <<gvars, dvars, pvars, bvars>>

\* PDFWrite::add_object(o), called by the user of the writer
AddObject(o) ==
    /\ status = "building"
    /\ kind[o] # "Absent"
    /\ \E ord \in DepOrders(deps) :
         LET w == add_object(Writer, o, ord, {})
         IN IF w.overflow
            THEN /\ status' = "stack_overflow"
                 /\ UNCHANGED <<num, objects, cur_num>>
            ELSE /\ num' = w.num
                 /\ objects' = w.objects
                 /\ cur_num' = w.cur_num
                 /\ UNCHANGED status
    /\ UNCHANGED <<kind, gen, deps, trailer, output, crt, panic>>
    /\ UNCHANGED <<gvars, dvars, pvars, bvars>>

\* mutant: create_root without the check that a root is already set
CreateRoot_Rebind(D) ==
    /\ status = "building"
    /\ D \subseteq {m \in Nodes : kind[m] # "Absent"}
    /\ GraphSize + Cardinality(D) < MaxSize
    /\ \E n \in Nodes :
         /\ IsFresh(n)
         /\ \E ord \in DepOrders([deps EXCEPT ![n] = D]) :
              LET w == add_object(
                           [Writer EXCEPT !.kind[n] = "Indirect"],
                           n, ord, {})
              IN IF w.overflow
                 THEN /\ status' = "stack_overflow"
                      /\ UNCHANGED <<kind, gen, deps, num, objects, cur_num,
                                     trailer, panic>>
                 ELSE /\ kind' = [kind EXCEPT ![n] = "Indirect"]
                      /\ gen' = [gen EXCEPT ![n] = 0]
                      /\ deps' = [deps EXCEPT ![n] = D]
                      /\ num' = w.num
                      /\ objects' = w.objects
                      /\ cur_num' = w.cur_num
                      /\ trailer' = [trailer EXCEPT !.root = n]
                      /\ UNCHANGED <<status, panic>>
    /\ UNCHANGED <<output, crt>>
    /\ UNCHANGED <<gvars, dvars, pvars, bvars>>

\* PDFWrite::create_root(root): root is a value (a Dict) whose entries are
\* the nodes of D; the call wraps it in a new Indirect node of generation 0
CreateRoot(D) ==
    /\ status = "building"
    /\ D \subseteq {m \in Nodes : kind[m] # "Absent"}
    /\ GraphSize + Cardinality(D) < MaxSize
    /\ IF trailer.root # None
       THEN /\ status' = "panic"
            /\ panic' = "An object is already root"
            /\ UNCHANGED <<kind, gen, deps, num, objects, cur_num, trailer>>
       ELSE \E n \in Nodes :
              /\ IsFresh(n)
              /\ LET k1 == [kind EXCEPT ![n] = "Indirect"]
                     d1 == [deps EXCEPT ![n] = D]
                 IN \E ord \in DepOrders(d1) :
                      LET w == add_object([Writer EXCEPT !.kind = k1],
                                          n, ord, {})
                      IN IF w.overflow
                         THEN /\ status' = "stack_overflow"
                              /\ UNCHANGED <<kind, gen, deps, num, objects,
                                             cur_num, trailer, panic>>
                         ELSE /\ kind' = k1
                              /\ gen' = [gen EXCEPT ![n] = 0]
                              /\ deps' = d1
                              /\ num' = w.num
                              /\ objects' = w.objects
                              /\ cur_num' = w.cur_num
                              /\ trailer' = [trailer EXCEPT !.root = n]
                              /\ UNCHANGED <<status, panic>>
    /\ UNCHANGED <<output, crt>>
    /\ UNCHANGED <<gvars, dvars, pvars, bvars>>

\* ------------------------------------------------------------ Output
\* A piece of text written by one write! call: its kind and its numbers.
Chunk(t, a, b, c) == [t |-> t, a |-> a, b |-> b, c |-> c]

RECURSIVE Digits(_)
\* the length of a number printed in decimal ("{}")
Digits(n) == IF n < 10 THEN 1 ELSE 1 + Digits(n \div 10)

\* the length of a number printed with a minimum width ("{:010}", "{:05}")
Padded(n, width) == IF Digits(n) < width THEN width ELSE Digits(n)

\* the number of bytes of a chunk
ByteLen(c) ==
    CASE c.t = "header" -> HeaderLen                       \* "%PDF-1.4\n%....\n"
      [] c.t = "obj" -> Digits(c.a) + Digits(c.b) + 6       \* "{} {} obj\n"
      [] c.t = "endobj" -> 7                                \* "endobj\n"
      [] c.t = "<<" -> 3                                    \* "<<\n"
      [] c.t = ">>" -> 3                                    \* ">>\n"
      [] c.t = "key" -> Digits(c.a) + 3                     \* "/K<m> "
      [] c.t = "R" -> Digits(c.a) + Digits(c.b) + 3         \* "{} {} R"
      [] c.t = "nl" -> 1                                    \* "\n"
      [] c.t = "xref" -> 5                                  \* "xref\n"
      [] c.t = "part" -> Digits(c.a) + Digits(c.b) + 2      \* "{} {}\n"
      [] c.t = "entry" -> Padded(c.a, 10) + Padded(c.b, 5) + 5
      [] c.t = "trailer" -> 8                               \* "trailer\n"
      [] c.t = "Size" -> Digits(c.a) + 6                    \* "/Size {}"
      [] c.t = "Root" -> 6                                  \* "/Root "
      [] c.t = "startxref" -> Digits(c.a) + 11              \* "startxref\n{}\n"
      [] c.t = "eof" -> 5                                   \* "%%EOF"
      [] c.t = "name" -> 1 + Len(c.a)                       \* "/{}"
      [] c.t = "sp" -> 1                                    \* " "
      [] c.t = "usize" -> Digits(c.a)                       \* "{}"
      [] c.t = "stream" -> 7                                \* "stream\n"
      [] c.t = "data" -> c.a                                \* the payload
      [] c.t = "endstream" -> 11                            \* "\nendstream\n"

\* ws is the state of a write in progress: [out, crt, size, startxref, err,
\* left].  err is "" until a step fails; from then on nothing more is done
\* (the ? operator returns, a panic unwinds), so every step leaves such a ws
\* alone.  left is the number of write calls the sink still accepts before
\* it answers with an error, None for a sink that accepts every call.

\* mutant: the error of the sink is dropped and the write goes on
Emit_IgnoreError(ws, c) ==
    IF ws.err # "" THEN ws
    ELSE IF ws.left = 0
    THEN [ws EXCEPT !.out.calls = @ + 1, !.out.failed = TRUE]
    ELSE [ws EXCEPT !.out.buf = Append(@, c),
                    !.out.pos = @ + ByteLen(c),
                    !.out.calls = @ + 1,
                    !.left = IF @ = None THEN None ELSE @ - 1]

\* Output::write of one chunk: the sink accepts every byte of it, or answers
\* with an error, which Output::write hands on and write! returns through ?.
Emit(ws, c) ==
    IF ws.err # "" THEN ws
    ELSE IF ws.left = 0
    THEN [ws EXCEPT !.err = "io error",
                    !.out.calls = @ + 1, !.out.failed = TRUE]
    ELSE [ws EXCEPT !.out.buf = Append(@, c),
                    !.out.pos = @ + ByteLen(c),
                    !.out.calls = @ + 1,
                    !.left = IF @ = None THEN None ELSE @ - 1]

Fail(ws, msg) == IF ws.err # "" THEN ws ELSE [ws EXCEPT !.err = msg]

\* ------------------------------------------------------ PDFData::write
\* Dict::write of the Dict node n wraps, and ObjRef::write of an entry m.
\* stack is the set of nodes whose Dict is being written: a Dict that holds
\* itself through Direct nodes is written forever (the call stack overflows).
RECURSIVE Dict_write(_, _, _, _)
RECURSIVE Dict_items(_, _, _, _)
RECURSIVE ObjRef_write(_, _, _, _)
Dict_write(ws, n, ord, stack) ==
    IF n \in stack THEN Fail(ws, "stack overflow")
    ELSE Emit(Dict_items(Emit(ws, Chunk("<<", 0, 0, 0)), ord[n], ord,
                         stack \cup {n}),
              Chunk(">>", 0, 0, 0))

Dict_items(ws, rest, ord, stack) ==
    IF rest = <<>> THEN ws
    ELSE Dict_items(
             Emit(ObjRef_write(Emit(ws, Chunk("key", Head(rest), 0, 0)),
                               Head(rest), ord, stack),
                  Chunk("nl", 0, 0, 0)),
             Tail(rest), ord, stack)

\* mutant: an entry of a Dict writes the value of the node it refers to
ObjRef_write_Inline(ws, m, ord, stack) ==
    IF m \in DOMAIN ord THEN Dict_write(ws, m, ord, stack)
    ELSE Emit(ws, Chunk("R", num[m], gen[m], 0))

ObjRef_write(ws, m, ord, stack) ==
    IF kind[m] = "Direct" THEN Dict_write(ws, m, ord, stack)
    ELSE IF num[m] = None THEN Fail(ws, "No number assigned")
    ELSE Emit(ws, Chunk("R", num[m], gen[m], 0))

\* --------------------------------------------------------------- CRT
\* mutant: a table without the free record of object 0
CRT_new_Empty == [entries |-> <<>>, size |-> 0]

CRT_new == [entries |-> <<[offset |-> 0, num |-> 0, gen |-> FreeGen,
                           free |-> TRUE]>>,
            size |-> 0]

CRT_add_entry(c, offset, n, g, free) ==
    [entries |-> Append(c.entries,
                        [offset |-> offset, num |-> n, gen |-> g,
                         free |-> free]),
     size |-> IF n > c.size THEN n ELSE c.size]

CRT_get_size(c) == c.size

\* entries.sort_by_key(num): a stable sort
InsertByNum(sorted, e) ==
    LET k == Cardinality({i \in 1..Len(sorted) : sorted[i].num <= e.num})
    IN SubSeq(sorted, 1, k) \o <<e>> \o SubSeq(sorted, k + 1, Len(sorted))

RECURSIVE SortByNum(_)
SortByNum(s) ==
    IF s = <<>> THEN <<>>
    ELSE InsertByNum(SortByNum(SubSeq(s, 1, Len(s) - 1)), s[Len(s)])

RECURSIVE CRT_write_entries(_, _)
CRT_write_entries(ws, entries) ==
    IF entries = <<>> THEN ws
    ELSE CRT_write_entries(
             Emit(ws, Chunk("entry", Head(entries).offset, Head(entries).gen,
                            IF Head(entries).free THEN 1 ELSE 0)),
             Tail(entries))

\* mutant: the subsection header counts the entries in use only
CRT_write_part_InUseCount(ws, entries, start_num) ==
    CRT_write_entries(Emit(ws, Chunk("part", start_num, Len(entries) - 1, 0)),
                      entries)

CRT_write_part(ws, entries, start_num) ==
    CRT_write_entries(Emit(ws, Chunk("part", start_num, Len(entries), 0)),
                      entries)

CRT_sort(ws) == [ws EXCEPT !.crt.entries = SortByNum(@)]

\* mutant: the entries are written in the order they were recorded
CRT_write_Unsorted(ws) ==
    IF ws.err # "" THEN ws
    ELSE CRT_write_part(Emit(ws, Chunk("xref", 0, 0, 0)), ws.crt.entries, 0)

CRT_write(ws) ==
    IF ws.err # "" THEN ws
    ELSE CRT_write_part(CRT_sort(Emit(ws, Chunk("xref", 0, 0, 0))),
                        SortByNum(ws.crt.entries), 0)

\* ---------------------------------------------------- Object::write_obj
\* mutant: the offset is taken after the 'num gen obj' line was written
write_obj_entry_AfterLine(ws, o) ==
    [ws EXCEPT !.crt = CRT_add_entry(@, ws.out.pos
                                          + ByteLen(Chunk("obj", num[o], gen[o], 0)),
                                     num[o], gen[o], FALSE)]

write_obj_entry(ws, o) ==
    [ws EXCEPT !.crt = CRT_add_entry(@, ws.out.pos, num[o], gen[o], FALSE)]

\* data.write(out) of write_obj: a deferred value that was never supplied is
\* MissingValue
Object_value_write(ws, o, ord) ==
    IF o \in unset THEN Fail(ws, "MissingValue")
    ELSE Dict_write(ws, o, ord, {})

write_obj(ws, o, ord) ==
    IF ws.err # "" THEN ws
    ELSE IF kind[o] # "Indirect" THEN Fail(ws, "Not an indirect object")
    ELSE IF num[o] = None THEN Fail(ws, "No num")
    ELSE Emit(Object_value_write(Emit(write_obj_entry(ws, o),
                                      Chunk("obj", num[o], gen[o], 0)),
                                 o, ord),
              Chunk("endobj", 0, 0, 0))

RECURSIVE write_objects_Reversed(_, _, _)
\* mutant: the objects are written last registered first
write_objects_Reversed(ws, objs, ord) ==
    IF objs = <<>> THEN ws
    ELSE write_obj(write_objects_Reversed(ws, Tail(objs), ord), Head(objs), ord)

RECURSIVE write_objects(_, _, _)
write_objects(ws, objs, ord) ==
    IF objs = <<>> THEN ws
    ELSE write_objects(write_obj(ws, Head(objs), ord), Tail(objs), ord)

\* ------------------------------------------------------ Trailer::write
Trailer_Size(ws) ==
    Emit(Emit(ws, Chunk("Size", ws.size, 0, 0)), Chunk("nl", 0, 0, 0))

Trailer_Root(ws) ==
    Emit(ObjRef_write(Emit(ws, Chunk("Root", 0, 0, 0)), trailer.root, <<>>, {}),
         Chunk("nl", 0, 0, 0))

\* mutant: a missing Root is left out of the trailer, as Info and ID are
Trailer_dict_RootOptional(ws, sizeFirst) ==
    IF ws.err # "" THEN ws
    ELSE IF ws.size = None THEN Fail(ws, "Size not set")
    ELSE IF trailer.root = None
    THEN Emit(Trailer_Size(Emit(ws, Chunk("<<", 0, 0, 0))),
              Chunk(">>", 0, 0, 0))
    ELSE Emit(IF sizeFirst
              THEN Trailer_Root(Trailer_Size(Emit(ws, Chunk("<<", 0, 0, 0))))
              ELSE Trailer_Size(Trailer_Root(Emit(ws, Chunk("<<", 0, 0, 0)))),
              Chunk(">>", 0, 0, 0))

\* the Dict built from Size and Root, and its write; sizeFirst: whether the
\* Dict visits Size before Root
Trailer_dict(ws, sizeFirst) ==
    IF ws.err # "" THEN ws
    ELSE IF ws.size = None THEN Fail(ws, "Size not set")
    ELSE IF trailer.root = None THEN Fail(ws, "Root not set")
    ELSE Emit(IF sizeFirst
              THEN Trailer_Root(Trailer_Size(Emit(ws, Chunk("<<", 0, 0, 0))))
              ELSE Trailer_Size(Trailer_Root(Emit(ws, Chunk("<<", 0, 0, 0)))),
              Chunk(">>", 0, 0, 0))

Trailer_write(ws, sizeFirst) ==
    Trailer_dict(Emit(ws, Chunk("trailer", 0, 0, 0)), sizeFirst)

\* ------------------------------------------------------ PDFWrite::write
\* self.trailer.size = Some(crt.get_size())
write_set_size(ws) ==
    IF ws.err # "" THEN ws ELSE [ws EXCEPT !.size = CRT_get_size(ws.crt)]

\* mutant: the position is taken after the xref keyword
write_startxref_AfterKeyword(ws) ==
    IF ws.err # "" THEN ws
    ELSE [ws EXCEPT !.startxref = ws.out.pos + ByteLen(Chunk("xref", 0, 0, 0))]

\* let startxref = self.output.get_pos()
write_startxref(ws) ==
    IF ws.err # "" THEN ws ELSE [ws EXCEPT !.startxref = ws.out.pos]

write_end(ws) ==
    Emit(Emit(ws, Chunk("startxref", ws.startxref, 0, 0)),
         Chunk("eof", 0, 0, 0))

write_begin ==
    [out |-> output, crt |-> CRT_new, size |-> trailer.size, startxref |-> 0,
     err |-> "", left |-> None]

\* accepts: the number of write calls the sink accepts, None for all
PDFWrite_write(ord, sizeFirst, accepts) ==
    write_end(
      Trailer_write(
        CRT_write(
          write_startxref(
            write_set_size(
              write_objects(Emit([write_begin EXCEPT !.left = accepts],
                                 Chunk("header", 0, 0, 0)),
                            objects, ord)))),
        sizeFirst))

\* the iteration orders of the trailer's Dict, which is built only once Size
\* and Root are there
TrailerOrders == IF trailer.root = None THEN {TRUE} ELSE BOOLEAN

\* how a call of PDFWrite::write ends: it returns Ok or the error of the
\* sink, or the process is killed by a panic or a stack overflow
write_status(w) ==
    IF w.err = "" THEN "written"
    ELSE IF w.err = "io error" THEN "io_error"
    ELSE IF w.err = "stack overflow" THEN "stack_overflow"
    ELSE IF w.err = "MissingValue" THEN "missing_value"
    ELSE "panic"

write_panic(w) ==
    IF w.err \in {"stack overflow", "io error", "MissingValue"} THEN ""
    ELSE w.err

\* PDFWrite::write with a sink that accepts every write
Write ==
    /\ status = "building"
    /\ \E ord \in DepOrders(deps), sizeFirst \in TrailerOrders :
         LET w == PDFWrite_write(ord, sizeFirst, None)
         IN /\ output' = w.out
            /\ crt' = w.crt
            /\ trailer' = [trailer EXCEPT !.size = w.size]
            /\ status' = write_status(w)
            /\ panic' = write_panic(w)
    /\ UNCHANGED <<kind, gen, deps, num, objects, cur_num>>
    /\ UNCHANGED <<gvars, dvars, pvars, bvars>>

\* the write calls a write makes to a sink that accepts them all
write_calls(ord, sizeFirst) == PDFWrite_write(ord, sizeFirst, None).out.calls

\* PDFWrite::write with a sink that answers one of the write calls made to
\* it with an error, having accepted the calls before
WriteSinkFails ==
    /\ status = "building"
    /\ \E ord \in DepOrders(deps), sizeFirst \in TrailerOrders :
         \E accepts \in 0..(write_calls(ord, sizeFirst) - 1) :
             LET w == PDFWrite_write(ord, sizeFirst, accepts)
             IN /\ output' = w.out
                /\ crt' = w.crt
                /\ trailer' = [trailer EXCEPT !.size = w.size]
                /\ status' = write_status(w)
                /\ panic' = write_panic(w)
    /\ UNCHANGED <<kind, gen, deps, num, objects, cur_num>>
    /\ UNCHANGED <<gvars, dvars, pvars, bvars>>

\* ------------------------------------------------------------- Color
\* A colour is its kind (the variant of enum Color) and its operands as
\* they print.
Color_default == [kind |-> "DeviceGray", v |-> "0"]

Color_red == [kind |-> "DeviceRGB", v |-> "1 0 0"]

Color_blue == [kind |-> "DeviceRGB", v |-> "0 0 1"]

\* the colours a caller passes
Colors == {Color_default, Color_red, Color_blue}

\* Option::None of an Option<Color>
Unset == [kind |-> "None", v |-> ""]

\* The pieces of a content stream: a space byte, a name ("/DeviceRGB"), an
\* operator, the operands of a colour.  Pieces that follow each other with no
\* space between them are bytes of one token.
Sp == [t |-> "sp", v |-> " "]

NamePiece(k) == [t |-> "name", v |-> k]

OpPiece(o) == [t |-> "op", v |-> o]

OperandsPiece(c) == [t |-> "num", v |-> c.v]

\* Color::set_colorspace and Color::set_color of graphics/mod.rs
set_colorspace(stroke) == IF stroke THEN <<OpPiece("CS")>> ELSE <<OpPiece("cs")>>

set_color(stroke) == IF stroke THEN <<OpPiece("SCN")>> ELSE <<OpPiece("scn")>>

\* Color::write of graphics/mod.rs: "/Kind " and the operator when the kind
\* differs from prev's, then the operands, each followed by a space, and the
\* operator
Color_write_space(self, prev, stroke, out) ==
    IF self.kind # prev.kind
    THEN out \o <<NamePiece(self.kind), Sp>> \o set_colorspace(stroke)
    ELSE out

Color_write(self, prev, stroke, out) ==
    Color_write_space(self, prev, stroke, out)
        \o <<OperandsPiece(self), Sp>> \o set_color(stroke)

\* mutant: a command that starts the buffer anew
command_Overwrite(out, params, operator) ==
    [i \in 1..(2 * Len(params)) |->
        IF i % 2 = 1 THEN Sp ELSE params[i \div 2]]
        \o <<Sp>> \o operator

\* GraphicContext::command: a space and the parameter for every parameter,
\* then a space and the operator
command(out, params, operator) ==
    out \o [i \in 1..(2 * Len(params)) |->
               IF i % 2 = 1 THEN Sp ELSE params[i \div 2]]
        \o <<Sp>> \o operator

\* Color::set_colorspace and Color::set_color of graphics/context.rs, whose
\* operators end with a space
ctx_set_colorspace(stroke) ==
    IF stroke THEN <<OpPiece("CS"), Sp>> ELSE <<OpPiece("cs"), Sp>>

ctx_set_color(stroke) ==
    IF stroke THEN <<OpPiece("SCN"), Sp>> ELSE <<OpPiece("scn"), Sp>>

\* Color::write of graphics/context.rs, which goes through command
ctx_Color_write_space(self, prev, stroke, out) ==
    IF self.kind # prev.kind
    THEN command(out, <<NamePiece(self.kind)>>, ctx_set_colorspace(stroke))
    ELSE out

ctx_Color_write(self, prev, stroke, out) ==
    command(ctx_Color_write_space(self, prev, stroke, out),
            <<OperandsPiece(self)>>, ctx_set_color(stroke))

\* ------------------------------------------------------ GraphicState
\* GraphicState::new (graphics/mod.rs)
GraphicState_new ==
    [api |-> "GraphicState", context_type |-> "Normal",
     fill |-> Color_default, stroke |-> Color_default]

\* g is a GraphicContext: [current, stream]
GraphicState_update_fill(g, object) ==
    IF object.fill # Unset
    THEN [current |-> [g.current EXCEPT !.fill = object.fill],
          stream |-> Color_write(object.fill, g.current.fill, FALSE, g.stream)]
    ELSE g

GraphicState_update_stroke(g, object) ==
    IF object.stroke # Unset
    THEN [current |-> [g.current EXCEPT !.stroke = object.stroke],
          stream |-> Color_write(object.stroke, g.current.stroke, TRUE,
                                 g.stream)]
    ELSE g

\* mutant: the colours are written and the state is left as it was
GraphicState_update_NoStore(g, object) ==
    [current |-> g.current,
     stream |-> GraphicState_update_stroke(
                    GraphicState_update_fill(g, object), object).stream]

\* GraphicState::update
GraphicState_update(g, object) ==
    GraphicState_update_stroke(GraphicState_update_fill(g, object), object)

\* ------------------------------------------------- GraphicParameters
\* GraphicParameters::with_type (graphics/context.rs), as the current state of
\* a context of that type
GraphicParameters_with_type(context_type) ==
    [api |-> "GraphicParameters", context_type |-> context_type,
     fill |-> Color_default, stroke |-> Color_default]

\* GraphicParameters::with_colors: the parameters of a drawable
GraphicParameters_with_colors(fill, stroke) ==
    [fill |-> IF fill # Unset THEN fill ELSE Color_default,
     stroke |-> IF stroke # Unset THEN stroke ELSE Color_default]

\* GraphicsContextType::color
GraphicsContextType_color(context_type) == context_type # "NoColor"

GraphicParameters_update_fill(g, new) ==
    [current |-> [g.current EXCEPT !.fill = new.fill],
     stream |-> ctx_Color_write(new.fill, g.current.fill, FALSE, g.stream)]

GraphicParameters_update_stroke(g, new) ==
    [current |-> [g.current EXCEPT !.stroke = new.stroke],
     stream |-> ctx_Color_write(new.stroke, g.current.stroke, TRUE, g.stream)]

\* GraphicParameters::update
GraphicParameters_update(g, new) ==
    IF GraphicsContextType_color(g.current.context_type)
    THEN GraphicParameters_update_stroke(
             GraphicParameters_update_fill(g, new), new)
    ELSE g

\* --------------------------------------------------------- drawables
\* A GraphicText without parts, as Text::new(..).fill(color) builds it; the
\* struct has a fill and a stroke colour, each optional.
GraphicText(fill, stroke) == [fill |-> fill, stroke |-> stroke]

\* GraphicText::render
GraphicText_render(out) ==
    command(command(out, <<>>, <<OpPiece("BT")>>), <<>>, <<OpPiece("ET")>>)

\* A Parameter of a geometry command: the numbers of a Point or a Rect,
\* joined by spaces, with no space at either end.
ArgPiece(a) == [t |-> "arg", v |-> a]

Point_start == "10 10"

Point_end == "200 200"

Rect_square == "10 10 190 190"

\* Path::new, Path::from: a builder with no subpath and the current parts
Path_new == [path |-> <<>>, cur |-> <<>>]

Path_from(point) == [path |-> <<>>, cur |-> <<[part |-> "Start", p |-> point]>>]

\* Path::line_to
Path_line_to(self, point) ==
    [self EXCEPT !.cur = Append(@, [part |-> "Line", p |-> point])]

\* Path::rect: the rectangle is a subpath of its own, pushed at once
Path_rect(self, r) ==
    [self EXCEPT !.path = Append(@, [sub |-> "Rect", r |-> r])]

\* Path::stroke, Path::fill, Path::stroke_fill: a GraphicPath with the
\* subpaths, its GraphicParameters and what to paint.  stroke ends the
\* current subpath only if it has more than one part; fill and stroke_fill
\* end it always.
Path_stroke(self, color) ==
    [params |-> GraphicParameters_with_colors(Unset, color),
     path |-> IF Len(self.cur) > 1
              THEN Append(self.path, [sub |-> "Parts", parts |-> self.cur])
              ELSE self.path,
     stroke |-> TRUE, fill |-> FALSE, even_odd |-> FALSE]

Path_fill(self, color) ==
    [params |-> GraphicParameters_with_colors(color, Unset),
     path |-> Append(self.path, [sub |-> "Parts", parts |-> self.cur]),
     stroke |-> FALSE, fill |-> TRUE, even_odd |-> FALSE]

Path_stroke_fill(self, stroke, fill) ==
    [params |-> GraphicParameters_with_colors(fill, stroke),
     path |-> Append(self.path, [sub |-> "Parts", parts |-> self.cur]),
     stroke |-> TRUE, fill |-> TRUE, even_odd |-> FALSE]

\* Path::stroke_even_odd, Path::fill_even_odd, Path::stroke_fill_even_odd:
\* all three end the current subpath always
Path_stroke_even_odd(self, color) ==
    [params |-> GraphicParameters_with_colors(Unset, color),
     path |-> Append(self.path, [sub |-> "Parts", parts |-> self.cur]),
     stroke |-> TRUE, fill |-> FALSE, even_odd |-> TRUE]

Path_fill_even_odd(self, color) ==
    [params |-> GraphicParameters_with_colors(color, Unset),
     path |-> Append(self.path, [sub |-> "Parts", parts |-> self.cur]),
     stroke |-> FALSE, fill |-> TRUE, even_odd |-> TRUE]

Path_stroke_fill_even_odd(self, stroke, fill) ==
    [params |-> GraphicParameters_with_colors(fill, stroke),
     path |-> Append(self.path, [sub |-> "Parts", parts |-> self.cur]),
     stroke |-> TRUE, fill |-> TRUE, even_odd |-> TRUE]

\* Path::move_to: ends the current subpath and starts one at point
Path_move_to(self, point) ==
    [path |-> Append(self.path, [sub |-> "Parts", parts |-> self.cur]),
     cur |-> <<[part |-> "Start", p |-> point]>>]

\* the builders a caller finishes: one rectangle (examples/pattern.rs), a
\* line and a rectangle (examples/simple.rs)
PathBuilders ==
    {Path_rect(Path_new, Rect_square),
     Path_rect(Path_line_to(Path_from(Point_start), Point_end), Rect_square)}

\* the paths a caller builds: every builder stroked, the rectangle also
\* filled, and filled and stroked
Paths ==
    {Path_stroke(b, c) : b \in PathBuilders, c \in Colors}
        \cup {Path_fill(Path_rect(Path_new, Rect_square), c) : c \in Colors}
        \cup {Path_stroke_fill(Path_rect(Path_new, Rect_square), c, d) :
                  c \in Colors, d \in Colors}

\* GraphicPath::render, the parts of one subpath: m for Start, l for Line
RECURSIVE render_parts(_, _)
render_parts(out, parts) ==
    IF parts = <<>> THEN out
    ELSE render_parts(
             command(out, <<ArgPiece(Head(parts).p)>>,
                     IF Head(parts).part = "Start" THEN <<OpPiece("m")>>
                     ELSE <<OpPiece("l")>>),
             Tail(parts))

\* GraphicPath::render, the subpaths in the order they were pushed
RECURSIVE render_subpaths(_, _)
render_subpaths(out, path) ==
    IF path = <<>> THEN out
    ELSE render_subpaths(
             IF Head(path).sub = "Rect"
             THEN command(out, <<ArgPiece(Head(path).r)>>, <<OpPiece("re")>>)
             ELSE render_parts(out, Head(path).parts),
             Tail(path))

\* GraphicPath::render: the subpaths, then the painting operator
\* mutant: a render that never uses the starred operators
GraphicPath_render_NoStar(out, path) ==
    command(render_subpaths(out, path.path), <<>>,
            IF path.fill /\ path.stroke THEN <<OpPiece("B")>>
            ELSE IF path.stroke THEN <<OpPiece("S")>>
            ELSE <<OpPiece("f")>>)

GraphicPath_render(out, path) ==
    command(render_subpaths(out, path.path), <<>>,
            IF path.fill /\ path.stroke
            THEN IF path.even_odd THEN <<OpPiece("B*")>> ELSE <<OpPiece("B")>>
            ELSE IF path.stroke THEN <<OpPiece("S")>>
            ELSE IF path.fill
            THEN IF path.even_odd THEN <<OpPiece("f*")>> ELSE <<OpPiece("f")>>
            ELSE <<OpPiece("unreachable")>>)

\* the drawables rendered into a stream: each ends with its own operator
Rendered(out) ==
    Cardinality({i \in 1..Len(out) :
                    out[i].t = "op" /\ out[i].v \in {"ET", "B", "S", "f", "B*", "f*"}})

\* ------------------------------------------------------ Dict, Stream
\* the keys and values callers put into the header mapping of a Stream
Names == {"Length", "Type", "PatternType"}

usize(n) == [t |-> "usize", v |-> n]

Name_new(n) == [t |-> "Name", v |-> n]

\* Dict::new: an empty HashMap
Dict_new == [k \in {} |-> usize(0)]

\* mutant: an insert that keeps the value a key already holds
HashMap_insert_KeepFirst(map, n, data) ==
    [k \in DOMAIN map \cup {n} |-> IF k \in DOMAIN map THEN map[k] ELSE data]

\* HashMap::insert: the key holds the new value, whatever it held
HashMap_insert(map, n, data) ==
    [k \in DOMAIN map \cup {n} |-> IF k = n THEN data ELSE map[k]]

\* Dict::add_entry
Dict_add_entry(map, n, data) == HashMap_insert(map, n, data)

\* Dict::add_optional; data is Unset for Option::None
Dict_add_optional(map, n, data) ==
    IF data # Unset THEN HashMap_insert(map, n, data) ELSE map

\* Dict::is_empty
Dict_is_empty(map) == DOMAIN map = {}

\* the number of bytes of a piece of a content stream
PieceLen(p) == IF p.t = "name" THEN 1 + Len(p.v) ELSE Len(p.v)

RECURSIVE data_len(_)
\* Vec::len of a payload
data_len(data) ==
    IF data = <<>> THEN 0 ELSE PieceLen(Head(data)) + data_len(Tail(data))

NoStream == [made |-> FALSE, data |-> <<>>]

\* mutant: a Stream whose header mapping gets no Length
Stream_new_NoLength(meta, data) ==
    [meta |-> meta, block |-> [made |-> TRUE, data |-> data]]

\* Stream::new(meta, data): the Length entry goes into the shared mapping
Stream_new(meta, data) ==
    [meta |-> Dict_add_entry(meta, "Length", usize(data_len(data))),
     block |-> [made |-> TRUE, data |-> data]]

\* PDFData::write of a value of the header mapping: a usize or a Name
PDFData_write(ws, data) ==
    IF data.t = "usize" THEN Emit(ws, Chunk("usize", data.v, 0, 0))
    ELSE Emit(ws, Chunk("name", data.v, 0, 0))

RECURSIVE Dict_write_items(_, _, _)
\* Dict::write, the loop over the HashMap: keys is the iteration order
Dict_write_items(ws, map, keys) ==
    IF keys = <<>> THEN ws
    ELSE Dict_write_items(
             Emit(PDFData_write(
                      Emit(Emit(ws, Chunk("name", Head(keys), 0, 0)),
                           Chunk("sp", 0, 0, 0)),
                      map[Head(keys)]),
                  Chunk("nl", 0, 0, 0)),
             map, Tail(keys))

\* Dict::write of a mapping of names to values
Dict_write_map(ws, map, keys) ==
    Emit(Dict_write_items(Emit(ws, Chunk("<<", 0, 0, 0)), map, keys),
         Chunk(">>", 0, 0, 0))

\* Stream::write: the header mapping as it is now, then the payload;
\* write_all of an empty payload makes no write call
Stream_write(ws, map, data, keys) ==
    Emit(IF data = <<>>
         THEN Emit(Dict_write_map(ws, map, keys), Chunk("stream", 0, 0, 0))
         ELSE Emit(Emit(Dict_write_map(ws, map, keys),
                        Chunk("stream", 0, 0, 0)),
                   Chunk("data", data_len(data), 0, 0)),
         Chunk("endstream", 0, 0, 0))

\* PDFWrite::new, with no node allocated yet
PDFWrite_new ==
    /\ kind = [n \in Nodes |-> "Absent"]
    /\ gen = [n \in Nodes |-> 0]
    /\ deps = [n \in Nodes |-> {}]
    /\ num = [n \in Nodes |-> None]
    /\ objects = <<>>
    /\ cur_num = 1
    /\ trailer = [size |-> None, root |-> None, info |-> None, id |-> None]
    /\ output = [buf |-> <<>>, pos |-> 0, calls |-> 0, failed |-> FALSE]
    /\ crt = CRT_new
    /\ status = "building"
    /\ panic = ""

\* ------------------------------------------------------------- Text
\* Update<T>: New(v) or Old(v)
Update_New(v) == [st |-> "New", v |-> v]

\* Option::None of a TextPart's font and pos
NoUpdate == <<>>

\* Update::update: Some(v) if New, which becomes Old; None if Old
Update_update(self) ==
    [ret |-> IF self.st = "New" THEN <<self.v>> ELSE NoUpdate,
     self |-> [self EXCEPT !.st = "Old"]]

\* mutant: a replace that keeps an Old value Old whatever it is given
Update_replace_Silent(self, new) ==
    IF self.st = "New" THEN Update_New(new) ELSE [self EXCEPT !.v = new]

\* Update::replace
Update_replace(self, new) ==
    IF self.st = "New" THEN Update_New(new)
    ELSE IF self.v # new THEN Update_New(new)
    ELSE self

\* the fonts, sizes and positions a caller passes
Fonts == {"timesroman", "helvetica"}

Sizes == {12, 14}

Points == {"0 0", "100 100"}

\* Text::new
Text_new(font, size) ==
    [parts |-> <<>>,
     font |-> Update_New(<<font, size>>),
     pos |-> Update_New("0 0")]

\* Text::move_to, Text::with_font, Text::font_size
Text_move_to(self, p) == [self EXCEPT !.pos = Update_replace(@, p)]

Text_with_font(self, font, size) ==
    [self EXCEPT !.font = Update_replace(@, <<font, size>>)]

Text_font_size(self, size) ==
    [self EXCEPT !.font = Update_replace(@, <<self.font.v[1], size>>)]

\* Text::text: a part with the font and the position if they are New
Text_text(self, p) ==
    [parts |-> Append(self.parts,
                      [text |-> p,
                       font |-> Update_update(self.font).ret,
                       pos |-> Update_update(self.pos).ret]),
     font |-> Update_update(self.font).self,
     pos |-> Update_update(self.pos).self]

\* Path::new, no GraphicPath made of it, and a Text::new
Builders_new ==
    /\ builder = Path_new
    /\ graphic = <<>>
    /\ text = Text_new("timesroman", 12)

\* PDF::new: no page; PDF::write has not begun and no deferred value exists
PDF_new ==
    /\ pages = <<>>
    /\ pc = "new"
    /\ unset = {}
    /\ result = ""

Init ==
    /\ PDFWrite_new
    /\ current = GraphicState_new
    /\ stream = <<>>
    /\ consumed = FALSE
    /\ items = Dict_new
    /\ calls = <<>>
    /\ block = NoStream
    /\ PDF_new
    /\ Builders_new

Next ==
    \/ \E n \in Nodes, g \in Gens : ObjRefNew(n, g)
    \/ \E n \in Nodes : DirectNew(n)
    \/ \E n \in Nodes, m \in Nodes : DictAddEntry(n, m)
    \/ \E o \in Nodes : AddObject(o)
    \/ \E D \in SUBSET Nodes : CreateRoot(D)
    \/ Write

Spec == Init /\ [][Next]_vars

\* the writer with a sink that can fail
NextIO ==
    \/ Next
    \/ WriteSinkFails

SpecIO == Init /\ [][NextIO]_vars

\* ----------------------------------------- the CRT used on its own
\* CRT is a public type: a caller can record any entries in any order and
\* write the table to any sink.
\* the offsets a caller records
CrtOffsets == {0, HeaderLen}

\* CRT::add_entry(offset, num, gen, free), called by the user of a CRT
CrtAddEntry(offset, n, g, free) ==
    /\ status = "building"
    /\ Len(crt.entries) < MaxSize - 1
    /\ crt' = CRT_add_entry(crt, offset, n, g, free)
    /\ UNCHANGED <<kind, gen, deps, num, objects, cur_num, trailer, output,
                   status, panic>>
    /\ UNCHANGED <<gvars, dvars, pvars, bvars>>

\* CRT::write(o), called by the user of a CRT.  The call consumes the table
\* (mut self): crt keeps the entries as the caller recorded them.
CrtWrite ==
    /\ status = "building"
    /\ output' = CRT_write([write_begin EXCEPT !.crt = crt]).out
    /\ status' = "written"
    /\ UNCHANGED <<kind, gen, deps, num, objects, cur_num, trailer, crt,
                   panic>>
    /\ UNCHANGED <<gvars, dvars, pvars, bvars>>

NextCRT ==
    \/ \E offset \in CrtOffsets, n \in 0..NumNodes, g \in Gens,
          free \in BOOLEAN : CrtAddEntry(offset, n, g, free)
    \/ CrtWrite

SpecCRT == Init /\ [][NextCRT]_vars

\* the generations a caller records: gen is a usize the caller supplies,
\* so it can be the head's 65535 or a number of more than five digits
WideGens == {0, FreeGen, 100000}

\* the CRT used on its own with the generations of WideGens
NextW ==
    \/ \E n \in 0..1, g \in WideGens, free \in BOOLEAN :
          CrtAddEntry(0, n, g, free)
    \/ CrtWrite

SpecW == Init /\ [][NextW]_vars

\* ------------------------------------------------ the content builder
\* the writer, which rendering leaves alone
wvars == <<kind, gen, deps, num, objects, cur_num, trailer, output, crt,
           status, panic>>

GraphicContext == [current |-> current, stream |-> stream]

\* a render that lets the drawable write its commands before the colours
RenderText_ColoursLast(fill, stroke) ==
    /\ ~consumed
    /\ current.api = "GraphicState"
    /\ Rendered(stream) < MaxSize - 3
    /\ current' = GraphicState_update(GraphicContext,
                                      GraphicText(fill, stroke)).current
    /\ stream' = GraphicState_update(
                     [current |-> current,
                      stream |-> GraphicText_render(stream)],
                     GraphicText(fill, stroke)).stream
    /\ UNCHANGED <<wvars, consumed, dvars, pvars, bvars>>

\* GraphicContext::render (graphics/mod.rs) of a drawable that reports its
\* colours with fill_color and stroke_color
RenderText(fill, stroke) ==
    /\ ~consumed
    /\ current.api = "GraphicState"
    /\ Rendered(stream) < MaxSize - 3
    /\ current' = GraphicState_update(GraphicContext,
                                      GraphicText(fill, stroke)).current
    /\ stream' = GraphicText_render(
                     GraphicState_update(GraphicContext,
                                         GraphicText(fill, stroke)).stream)
    /\ UNCHANGED <<wvars, consumed, dvars, pvars, bvars>>

\* render of a drawable that carries GraphicParameters, on a context whose
\* current state is a GraphicParameters
RenderPath(path) ==
    /\ ~consumed
    /\ current.api = "GraphicParameters"
    /\ Rendered(stream) < MaxSize - 3
    /\ current' = GraphicParameters_update(GraphicContext, path.params).current
    /\ stream' = GraphicPath_render(
                     GraphicParameters_update(GraphicContext,
                                              path.params).stream, path)
    /\ UNCHANGED <<wvars, consumed, dvars, pvars, bvars>>

\* mutant: a compile that borrows the builder and leaves it usable
Compile_ByReference ==
    /\ ~consumed
    /\ UNCHANGED <<consumed, stream>>
    /\ status = "building"
    /\ items' = Stream_new(Dict_new, stream).meta
    /\ calls' = <<[op |-> "add_entry", n |-> "Length",
                   data |-> usize(data_len(stream))]>>
    /\ block' = Stream_new(Dict_new, stream).block
    /\ \E n \in Nodes :
         /\ IsFresh(n)
         /\ \E ord \in DepOrders(deps) :
              LET w == add_object([Writer EXCEPT
                                       !.kind = [kind EXCEPT ![n] = "Indirect"]],
                                  n, ord, {})
              IN /\ kind' = w.kind
                 /\ gen' = [gen EXCEPT ![n] = 0]
                 /\ num' = w.num
                 /\ objects' = w.objects
                 /\ cur_num' = w.cur_num
    /\ UNCHANGED <<deps, trailer, output, crt, status, panic, current, pvars, bvars>>

\* GraphicContext::compile(self, write), with no font used: the builder is
\* moved into the call, its buffer becomes the payload of a Stream over a
\* new Dict, and the Stream is wrapped in an object and registered.
Compile ==
    /\ ~consumed
    /\ consumed' = TRUE
    /\ stream' = <<>>
    /\ status = "building"
    /\ items' = Stream_new(Dict_new, stream).meta
    /\ calls' = <<[op |-> "add_entry", n |-> "Length",
                   data |-> usize(data_len(stream))]>>
    /\ block' = Stream_new(Dict_new, stream).block
    /\ \E n \in Nodes :
         /\ IsFresh(n)
         /\ \E ord \in DepOrders(deps) :
              LET w == add_object([Writer EXCEPT
                                       !.kind = [kind EXCEPT ![n] = "Indirect"]],
                                  n, ord, {})
              IN /\ kind' = w.kind
                 /\ gen' = [gen EXCEPT ![n] = 0]
                 /\ num' = w.num
                 /\ objects' = w.objects
                 /\ cur_num' = w.cur_num
    /\ UNCHANGED <<deps, trailer, output, crt, status, panic, current, pvars, bvars>>

\* GraphicContext::new, GraphicContext::with_type(Normal / NoColor)
InitG ==
    /\ PDFWrite_new
    /\ current \in {GraphicState_new,
                    GraphicParameters_with_type("Normal"),
                    GraphicParameters_with_type("NoColor")}
    /\ stream = <<>>
    /\ consumed = FALSE
    /\ items = Dict_new
    /\ calls = <<>>
    /\ block = NoStream
    /\ PDF_new
    /\ Builders_new

NextG ==
    \/ \E fill \in Colors \cup {Unset}, stroke \in Colors \cup {Unset} :
          RenderText(fill, stroke)
    \/ \E path \in Paths : RenderPath(path)
    \/ Compile

SpecG == InitG /\ [][NextG]_vars

\* ----------------------------------- a Dict and the Stream that shares it
\* the values callers put into the mapping
Values == {usize(0), usize(1), Name_new("Pattern")}

\* the payloads a Stream is made with: 0, 1 and 2 bytes
Payloads == {<<>>, <<Sp>>, <<Sp, OpPiece("f")>>}

\* Dict::add_entry on the mapping, by any holder of the Rc<Dict>
AddEntry(n, data) ==
    /\ status = "building"
    /\ Len(calls) < MaxSize - 2
    /\ items' = Dict_add_entry(items, n, data)
    /\ calls' = Append(calls, [n |-> n, data |-> data])
    /\ UNCHANGED <<wvars, gvars, block, pvars, bvars>>

\* Dict::add_optional on the mapping; data is Unset for Option::None
AddOptional(n, data) ==
    /\ status = "building"
    /\ Len(calls) < MaxSize - 2
    /\ items' = Dict_add_optional(items, n, data)
    /\ calls' = Append(calls, [n |-> n, data |-> data])
    /\ UNCHANGED <<wvars, gvars, block, pvars, bvars>>

\* Stream::new(meta, data) over the mapping
StreamNew(data) ==
    /\ status = "building"
    /\ ~block.made
    /\ items' = Stream_new(items, data).meta
    /\ calls' = Append(calls, [n |-> "Length",
                               data |-> usize(data_len(data))])
    /\ block' = Stream_new(items, data).block
    /\ UNCHANGED <<wvars, gvars, pvars, bvars>>

\* Stream::write(o) to a sink that accepts every byte
StreamWrite ==
    /\ status = "building"
    /\ block.made
    /\ \E keys \in Perms(DOMAIN items) :
         output' = Stream_write(write_begin, items, block.data, keys).out
    /\ status' = "written"
    /\ UNCHANGED <<kind, gen, deps, num, objects, cur_num, trailer, crt,
                   panic>>
    /\ UNCHANGED <<gvars, dvars, pvars, bvars>>

NextD ==
    \/ \E n \in Names, data \in Values : AddEntry(n, data)
    \/ \E n \in Names, data \in Values \cup {Unset} : AddOptional(n, data)
    \/ \E data \in Payloads : StreamNew(data)
    \/ StreamWrite

SpecD == Init /\ [][NextD]_vars

\* ------------------------------------------------ deferred-value nodes
\* mutant: an assign that replaces a value that is already there
Object_assign_Overwrite(us, d, o, D) ==
    [res |-> "Ok", unset |-> us \ {o}, deps |-> [d EXCEPT ![o] = D]]

\* Object::assign(value) on node o; us: the nodes without a value, d: the
\* entries of the values, D: the entries of the Dict supplied
Object_assign(us, d, o, D) ==
    IF o \in us
    THEN [res |-> "Ok", unset |-> us \ {o}, deps |-> [d EXCEPT ![o] = D]]
    ELSE [res |-> "AlreadyAssigned", unset |-> us, deps |-> d]

\* Object::empty(gen): an Indirect node whose value is supplied later
ObjectEmpty(n, g) ==
    /\ status = "building"
    /\ IsFresh(n)
    /\ GraphSize < MaxSize
    /\ kind' = [kind EXCEPT ![n] = "Indirect"]
    /\ gen' = [gen EXCEPT ![n] = g]
    /\ unset' = unset \cup {n}
    /\ UNCHANGED <<deps, num, objects, cur_num, trailer, output, crt,
                   status, panic>>
    /\ UNCHANGED <<gvars, dvars, pages, pc, result, bvars>>

\* o.assign(value), value a Dict whose entries are the nodes of D
ObjectAssign(o, D) ==
    /\ status = "building"
    /\ kind[o] = "Indirect"
    /\ D \subseteq {m \in Nodes : kind[m] # "Absent"}
    /\ GraphSize + Cardinality(D) <= MaxSize
    /\ unset' = Object_assign(unset, deps, o, D).unset
    /\ deps' = Object_assign(unset, deps, o, D).deps
    /\ result' = Object_assign(unset, deps, o, D).res
    /\ UNCHANGED <<kind, gen, num, objects, cur_num, trailer, output, crt,
                   status, panic>>
    /\ UNCHANGED <<gvars, dvars, pages, pc, bvars>>

NextE ==
    \/ \E n \in Nodes, g \in Gens : ObjectEmpty(n, g)
    \/ \E n \in Nodes, g \in Gens : ObjRefNew(n, g)
    \/ \E o \in Nodes, D \in SUBSET Nodes : ObjectAssign(o, D)
    \/ \E o \in Nodes : AddObject(o)
    \/ Write

SpecE == Init /\ [][NextE]_vars

\* ------------------------------------------------------ PDF (lib.rs)
\* the pages of a document: its 2 * MaxPages + 3 nodes and their entries
\* stay within the size of the graphs above when every node is counted once
MaxPages == (MaxSize - 1) \div 2

\* the slots of the nodes PDF::write makes, in the order it makes them:
\* outlines, pages, then the content stream and the page of each Page, and
\* the catalog
DocNodes == 1..(2 * MaxPages + 3)

outlines == 1

pages_node == 2

contents_of(i) == 2 * i + 1

page_of(i) == 2 * i + 2

catalog == 2 * Len(pages) + 3

\* Page::new and Page::add(g): the page's GraphicContext renders g
Page_new == [current |-> GraphicState_new, stream |-> <<>>]

Page_add(self, g) ==
    [current |-> GraphicState_update(self, g).current,
     stream |-> GraphicText_render(GraphicState_update(self, g).stream)]

\* the pages a caller adds
Pages ==
    {Page_new,
     Page_add(Page_new, GraphicText(Color_red, Unset)),
     Page_add(Page_new, GraphicText(Unset, Color_blue)),
     Page_add(Page_add(Page_new, GraphicText(Color_red, Unset)),
              GraphicText(Color_blue, Color_red))}

\* the pages PDF::write has rendered
RenderedPages ==
    (Cardinality({n \in DocNodes : kind[n] # "Absent"}) - 2) \div 2

\* the iteration orders of the Dicts of a document; the Kids of the pages
\* node are a Vec, visited in the order of the pages
DocOrders(d) ==
    {f \in OrdersUpTo(d, 2 * MaxPages + 3) :
        \A i \in 1..Len(f[pages_node]), j \in 1..Len(f[pages_node]) :
            i < j => f[pages_node][i] < f[pages_node][j]}

\* PDFWrite::set_root(o): fails if a root is set or o is Direct; as
\* create_root does, it registers o and binds the trailer's root to it
set_root(w, tr, o, ord) ==
    IF tr.root # None
    THEN [w |-> w, root |-> tr.root, panic |-> "An object is already root"]
    ELSE IF w.kind[o] # "Indirect"
    THEN [w |-> w, root |-> tr.root, panic |-> "NotIndirect"]
    ELSE [w |-> add_object(w, o, ord, {}), root |-> o, panic |-> ""]

\* PDF::add_page
PdfAddPage(page) ==
    /\ pc = "new"
    /\ Len(pages) < MaxPages
    /\ pages' = Append(pages, page)
    /\ UNCHANGED <<wvars, gvars, dvars, pc, unset, result, bvars>>

\* PDF::write, lines 20-28: the writer, the outlines node and the pages
\* node, whose value comes later
PdfWriteNew ==
    /\ pc = "new"
    /\ pc' = "render"
    /\ kind' = [kind EXCEPT ![outlines] = "Indirect",
                            ![pages_node] = "Indirect"]
    /\ unset' = unset \cup {pages_node}
    /\ UNCHANGED <<gen, deps, num, objects, cur_num, trailer, output, crt,
                   status, panic>>
    /\ UNCHANGED <<gvars, dvars, pages, result, bvars>>

\* the registrations of a step of PDF::write: the writer w they end in, or
\* the stack overflow that kills the process
Registered(w) ==
    IF w.overflow
    THEN /\ status' = "stack_overflow"
         /\ UNCHANGED <<num, objects, cur_num>>
    ELSE /\ num' = w.num
         /\ objects' = w.objects
         /\ cur_num' = w.cur_num
         /\ UNCHANGED status

\* PDF::write, lines 32-37, for the next page: Page::render compiles the
\* page's builder into a Stream object and makes the page object, whose Dict
\* holds the pages node as Parent and the Stream as Contents; both are
\* registered
PdfWritePage ==
    /\ pc = "render"
    /\ status = "building"
    /\ RenderedPages < Len(pages)
    /\ LET i == RenderedPages + 1
           k1 == [kind EXCEPT ![contents_of(i)] = "Indirect",
                              ![page_of(i)] = "Indirect"]
           d1 == [deps EXCEPT ![page_of(i)] = {pages_node, contents_of(i)}]
       IN /\ kind' = k1
          /\ deps' = d1
          /\ items' = Stream_new(Dict_new, pages[i].stream).meta
          /\ block' = Stream_new(Dict_new, pages[i].stream).block
          /\ \E ord \in DocOrders(d1) :
                Registered(add_dependents([Writer EXCEPT !.kind = k1],
                                          <<contents_of(i), page_of(i)>>,
                                          ord, {}))
    /\ UNCHANGED <<gen, trailer, output, crt, panic>>
    /\ UNCHANGED <<gvars, calls, pvars, bvars>>

\* PDF::write, lines 39-43: the pages node gets its value, whose Kids are
\* the page objects
PdfWriteAssign ==
    /\ pc = "render"
    /\ status = "building"
    /\ RenderedPages = Len(pages)
    /\ pc' = "catalog"
    /\ LET r == Object_assign(unset, deps, pages_node,
                              {page_of(i) : i \in 1..Len(pages)})
       IN /\ unset' = r.unset
          /\ deps' = r.deps
          /\ result' = r.res
    /\ UNCHANGED <<kind, gen, num, objects, cur_num, trailer, output, crt,
                   status, panic>>
    /\ UNCHANGED <<gvars, dvars, pages, bvars>>

\* PDF::write, lines 44-52: the catalog, whose Dict holds the outlines and
\* the pages node; the outlines node is registered
PdfWriteCatalog ==
    /\ pc = "catalog"
    /\ status = "building"
    /\ pc' = "root"
    /\ LET k1 == [kind EXCEPT ![catalog] = "Indirect"]
           d1 == [deps EXCEPT ![catalog] = {outlines, pages_node}]
       IN /\ kind' = k1
          /\ deps' = d1
          /\ \E ord \in DocOrders(d1) :
                Registered(add_object([Writer EXCEPT !.kind = k1],
                                      outlines, ord, {}))
    /\ UNCHANGED <<gen, trailer, output, crt, panic>>
    /\ UNCHANGED <<gvars, dvars, pages, unset, result, bvars>>

\* PDF::write, line 53: set_root(catalog)
PdfWriteSetRoot ==
    /\ pc = "root"
    /\ status = "building"
    /\ pc' = "pages"
    /\ \E ord \in DocOrders(deps) :
          LET r == set_root(Writer, trailer, catalog, ord)
          IN IF r.panic # ""
             THEN /\ status' = "panic"
                  /\ panic' = r.panic
                  /\ UNCHANGED <<num, objects, cur_num, trailer>>
             ELSE /\ Registered(r.w)
                  /\ trailer' = IF r.w.overflow THEN trailer
                                ELSE [trailer EXCEPT !.root = r.root]
                  /\ UNCHANGED panic
    /\ UNCHANGED <<kind, gen, deps, output, crt>>
    /\ UNCHANGED <<gvars, dvars, pages, unset, result, bvars>>

\* PDF::write, line 54: add_object(pages)
PdfWriteAddPages ==
    /\ pc = "pages"
    /\ status = "building"
    /\ pc' = "write"
    /\ \E ord \in DocOrders(deps) :
          Registered(add_object(Writer, pages_node, ord, {}))
    /\ UNCHANGED <<kind, gen, deps, trailer, output, crt, panic>>
    /\ UNCHANGED <<gvars, dvars, pages, unset, result, bvars>>

\* PDF::write, line 55: pdf_writer.write(out)
PdfWriteOut ==
    /\ pc = "write"
    /\ status = "building"
    /\ pc' = "done"
    /\ \E ord \in DocOrders(deps), sizeFirst \in TrailerOrders :
         LET w == PDFWrite_write(ord, sizeFirst, None)
         IN /\ output' = w.out
            /\ crt' = w.crt
            /\ trailer' = [trailer EXCEPT !.size = w.size]
            /\ status' = write_status(w)
            /\ panic' = write_panic(w)
    /\ UNCHANGED <<kind, gen, deps, num, objects, cur_num>>
    /\ UNCHANGED <<gvars, dvars, pages, unset, result, bvars>>

\* a PDFWrite over the nodes of a document
InitP ==
    /\ kind = [n \in DocNodes |-> "Absent"]
    /\ gen = [n \in DocNodes |-> 0]
    /\ deps = [n \in DocNodes |-> {}]
    /\ num = [n \in DocNodes |-> None]
    /\ objects = <<>>
    /\ cur_num = 1
    /\ trailer = [size |-> None, root |-> None, info |-> None, id |-> None]
    /\ output = [buf |-> <<>>, pos |-> 0, calls |-> 0, failed |-> FALSE]
    /\ crt = CRT_new
    /\ status = "building"
    /\ panic = ""
    /\ current = GraphicState_new
    /\ stream = <<>>
    /\ consumed = FALSE
    /\ items = Dict_new
    /\ calls = <<>>
    /\ block = NoStream
    /\ PDF_new
    /\ Builders_new

NextP ==
    \/ \E page \in Pages : PdfAddPage(page)
    \/ PdfWriteNew
    \/ PdfWritePage
    \/ PdfWriteAssign
    \/ PdfWriteCatalog
    \/ PdfWriteSetRoot
    \/ PdfWriteAddPages
    \/ PdfWriteOut

SpecP == InitP /\ [][NextP]_vars

\* ------------------------------------------------ the path builder
\* the points and the subpaths of the builder
BuilderSize == Len(builder.cur) + Len(builder.path)

\* Path::line_to, Path::move_to, Path::rect on the builder
PathLineTo(point) ==
    /\ graphic = <<>>
    /\ BuilderSize < MaxSize - 2
    /\ builder' = Path_line_to(builder, point)
    /\ UNCHANGED <<wvars, gvars, dvars, pvars, graphic, text>>

PathMoveTo(point) ==
    /\ graphic = <<>>
    /\ BuilderSize < MaxSize - 2
    /\ builder' = Path_move_to(builder, point)
    /\ UNCHANGED <<wvars, gvars, dvars, pvars, graphic, text>>

PathRect(r) ==
    /\ graphic = <<>>
    /\ BuilderSize < MaxSize - 2
    /\ builder' = Path_rect(builder, r)
    /\ UNCHANGED <<wvars, gvars, dvars, pvars, graphic, text>>

\* the terminal operations: each makes a GraphicPath of the builder
PathStroke(color) ==
    /\ graphic = <<>>
    /\ graphic' = <<Path_stroke(builder, color)>>
    /\ UNCHANGED <<wvars, gvars, dvars, pvars, builder, text>>

PathFill(color) ==
    /\ graphic = <<>>
    /\ graphic' = <<Path_fill(builder, color)>>
    /\ UNCHANGED <<wvars, gvars, dvars, pvars, builder, text>>

PathStrokeFill(stroke, fill) ==
    /\ graphic = <<>>
    /\ graphic' = <<Path_stroke_fill(builder, stroke, fill)>>
    /\ UNCHANGED <<wvars, gvars, dvars, pvars, builder, text>>

PathStrokeEvenOdd(color) ==
    /\ graphic = <<>>
    /\ graphic' = <<Path_stroke_even_odd(builder, color)>>
    /\ UNCHANGED <<wvars, gvars, dvars, pvars, builder, text>>

PathFillEvenOdd(color) ==
    /\ graphic = <<>>
    /\ graphic' = <<Path_fill_even_odd(builder, color)>>
    /\ UNCHANGED <<wvars, gvars, dvars, pvars, builder, text>>

PathStrokeFillEvenOdd(stroke, fill) ==
    /\ graphic = <<>>
    /\ graphic' = <<Path_stroke_fill_even_odd(builder, stroke, fill)>>
    /\ UNCHANGED <<wvars, gvars, dvars, pvars, builder, text>>

\* render of the GraphicPath on a new context: the colours, then the
\* drawable's commands
PathRender ==
    /\ graphic # <<>>
    /\ stream = <<>>
    /\ current' = GraphicParameters_update(GraphicContext,
                                           graphic[1].params).current
    /\ stream' = GraphicPath_render(
                     GraphicParameters_update(GraphicContext,
                                              graphic[1].params).stream,
                     graphic[1])
    /\ UNCHANGED <<wvars, consumed, dvars, pvars, bvars>>

\* Path::new or Path::from(point), and a context of type Normal
InitB ==
    /\ PDFWrite_new
    /\ current = GraphicParameters_with_type("Normal")
    /\ stream = <<>>
    /\ consumed = FALSE
    /\ items = Dict_new
    /\ calls = <<>>
    /\ block = NoStream
    /\ PDF_new
    /\ builder \in {Path_new, Path_from(Point_start)}
    /\ graphic = <<>>
    /\ text = Text_new("timesroman", 12)

NextB ==
    \/ \E point \in {Point_start, Point_end} : PathLineTo(point)
    \/ \E point \in {Point_start, Point_end} : PathMoveTo(point)
    \/ PathRect(Rect_square)
    \/ \E color \in Colors : PathStroke(color)
    \/ \E color \in Colors : PathFill(color)
    \/ \E stroke \in Colors, fill \in Colors : PathStrokeFill(stroke, fill)
    \/ \E color \in Colors : PathStrokeEvenOdd(color)
    \/ \E color \in Colors : PathFillEvenOdd(color)
    \/ \E stroke \in Colors, fill \in Colors :
          PathStrokeFillEvenOdd(stroke, fill)
    \/ PathRender

SpecB == InitB /\ [][NextB]_vars

\* ------------------------------------------------------ Output alone
\* the lengths of the buffers a caller hands to Output::write
BufLens == 1..3

\* what the sink answers to write(buf): Ok(num) with num of the len bytes
\* accepted, or an error
Ok(n) == [ok |-> TRUE, num |-> n]

Err == [ok |-> FALSE, num |-> 0]

\* the sink after a call of its write
Sink_write(self, tmp) ==
    [self EXCEPT !.buf = IF tmp.ok /\ tmp.num > 0
                         THEN Append(@, Chunk("data", tmp.num, 0, 0))
                         ELSE @,
                 !.calls = @ + 1,
                 !.failed = @ \/ ~tmp.ok]

\* mutant: the position advances by the length of the buffer
Output_write_WholeBuffer(self, len, tmp) ==
    [Sink_write(self, tmp) EXCEPT !.pos = IF tmp.ok THEN @ + len ELSE @]

\* Output::write(buf), buf of len bytes: the sink's answer is handed on, and
\* the position advances by the count of an Ok
Output_write(self, len, tmp) ==
    [Sink_write(self, tmp) EXCEPT !.pos = IF tmp.ok THEN @ + tmp.num ELSE @]

\* Output::flush: the sink's flush, nothing else
Output_flush(self) == [self EXCEPT !.calls = @ + 1]

OutputWrite(len, n) ==
    /\ output.calls < MaxSize
    /\ output' = Output_write(output, len, Ok(n))
    /\ UNCHANGED <<kind, gen, deps, num, objects, cur_num, trailer, crt, status,
                   panic, gvars, dvars, pvars, bvars>>

OutputWriteFails(len) ==
    /\ output.calls < MaxSize
    /\ output' = Output_write(output, len, Err)
    /\ UNCHANGED <<kind, gen, deps, num, objects, cur_num, trailer, crt, status,
                   panic, gvars, dvars, pvars, bvars>>

OutputFlush ==
    /\ output.calls < MaxSize
    /\ output' = Output_flush(output)
    /\ UNCHANGED <<kind, gen, deps, num, objects, cur_num, trailer, crt, status,
                   panic, gvars, dvars, pvars, bvars>>

NextO ==
    \/ \E len \in BufLens : \E n \in 0..len : OutputWrite(len, n)
    \/ \E len \in BufLens : OutputWriteFails(len)
    \/ OutputFlush

SpecO == Init /\ [][NextO]_vars

\* --------------------------------------------- the text builder
\* Text::move_to(p)
TextMoveTo(p) ==
    /\ text' = Text_move_to(text, p)
    /\ UNCHANGED <<wvars, gvars, dvars, pvars, builder, graphic>>

\* Text::with_font(font, size)
TextWithFont(font, size) ==
    /\ text' = Text_with_font(text, font, size)
    /\ UNCHANGED <<wvars, gvars, dvars, pvars, builder, graphic>>

\* Text::font_size(size)
TextFontSize(size) ==
    /\ text' = Text_font_size(text, size)
    /\ UNCHANGED <<wvars, gvars, dvars, pvars, builder, graphic>>

\* Text::text(p): one more run
TextText(p) ==
    /\ Len(text.parts) < MaxSize - 2
    /\ text' = Text_text(text, p)
    /\ UNCHANGED <<wvars, gvars, dvars, pvars, builder, graphic>>

NextT ==
    \/ \E p \in Points : TextMoveTo(p)
    \/ \E font \in Fonts, size \in Sizes : TextWithFont(font, size)
    \/ \E size \in Sizes : TextFontSize(size)
    \/ TextText("run")

SpecT == Init /\ [][NextT]_vars

\* ======================================================================
\* Properties
\* ======================================================================
Allocated == {n \in Nodes : kind[n] # "Absent"}

\* the nodes reachable from the nodes of S through the entries d, S included
RECURSIVE ReachSet(_, _)
ReachSet(d, S) ==
    IF UNION {d[n] : n \in S} \subseteq S THEN S
    ELSE ReachSet(d, S \cup UNION {d[n] : n \in S})

IndirectReach(k, d, S) == {m \in ReachSet(d, S) : k[m] = "Indirect"}

\* the nodes written as part of a value with entries S: the entries, and the
\* entries of the Direct nodes among them, and so on
RECURSIVE NestedIn(_)
NestedIn(S) ==
    IF UNION {deps[n] : n \in {x \in S : kind[x] = "Direct"}} \subseteq S
    THEN S
    ELSE NestedIn(S \cup UNION {deps[n] : n \in {x \in S : kind[x] = "Direct"}})

\* every Indirect node referenced from the value of a registered node, or
\* from the trailer's Root, has an identity
Closed ==
    /\ \A o \in Range(objects) : \A m \in NestedIn(deps[o]) :
          kind[m] = "Indirect" => num[m] # None
    /\ trailer.root # None => num[trailer.root] # None

\* the write list holds every Indirect node reachable from its nodes
Full == IndirectReach(kind, deps, Range(objects)) \subseteq Range(objects)

NoDuplicates == Cardinality(Range(objects)) = Len(objects)

SameWriter(a, b) ==
    a.num = b.num /\ a.objects = b.objects /\ a.cur_num = b.cur_num

\* PDFWrite::write has been called (the header is the first thing it writes)
WriteCalled == output.buf # <<>>

Emitted(t) == \E i \in 1..Len(output.buf) : output.buf[i].t = t

\* the highest object number recorded in a cross-reference table
HighestNum(c) ==
    CHOOSE m \in {c.entries[i].num : i \in 1..Len(c.entries)} :
        \A i \in 1..Len(c.entries) : c.entries[i].num <= m

IdentityPanics == {"No number assigned", "No num", "Not an indirect object"}

\* ---------------------------------------------------------------- C1
\* C1: in every written document the Size of the trailer is the highest
\* object number of the cross-reference table plus one.
C1_SizeIsHighestPlusOne ==
    status = "written" =>
        /\ trailer.size = HighestNum(crt) + 1
        /\ \A i \in 1..Len(output.buf) :
              output.buf[i].t = "Size" => output.buf[i].a = HighestNum(crt) + 1

\* a document with two objects has been written
C1_Written == status = "written" /\ Len(objects) = 2 /\ Emitted("Size")

C3_SequentialIdentities ==
    /\ \A i \in 1..Len(objects) :
          kind[objects[i]] = "Indirect" /\ num[objects[i]] = i
    /\ cur_num = Len(objects) + 1
    /\ \A n \in Nodes :
          /\ num[n] # 0
          /\ num[n] # None => n \in Range(objects)

\* two nodes are registered, and a Direct node is nested in a registered one
C3_TwoRegistered ==
    /\ Len(objects) >= 2
    /\ \E o \in Range(objects) : \E d \in deps[o] : kind[d] = "Direct"

\* ---------------------------------------------------------------- C4
\* what assign_num answers and does on every allocated node
AssignNumContract ==
    \A o \in Allocated, k \in 1..(NumNodes + 1) :
        /\ (kind[o] = "Indirect" /\ num[o] = None) =>
              /\ assign_num(kind, num, o, k).res = "Ok"
              /\ assign_num(kind, num, o, k).num = [num EXCEPT ![o] = k]
        /\ (kind[o] = "Indirect" /\ num[o] # None) =>
              /\ assign_num(kind, num, o, k).res = "AlreadyAssigned"
              /\ assign_num(kind, num, o, k).num = num
        /\ kind[o] = "Direct" =>
              /\ assign_num(kind, num, o, k).res = "DirectObject"
              /\ assign_num(kind, num, o, k).num = num

\* C4: assign_num sets the identity of an Indirect node that has none,
\* answers AlreadyAssigned and changes nothing on one that has, answers
\* DirectObject and changes nothing on a Direct node; over every step of the
\* program an identity that is set stays as it is and a Direct node has none.
C4_IdentitySetOnce ==
    [][/\ AssignNumContract
       /\ AssignNumContract'
       /\ \A n \in Nodes :
             /\ num[n] # None => num'[n] = num[n]
             /\ kind'[n] = "Direct" => num'[n] = None]_vars

\* a registered node holds a registered node and a Direct node
C4_AssignedAndDirect ==
    \E o \in Range(objects) :
        /\ \E d \in deps[o] : kind[d] = "Direct"
        /\ \E m \in deps[o] : kind[m] = "Indirect" /\ num[m] # None

\* ---------------------------------------------------------------- C5
\* C5: when add_object(o) returns, every Indirect node reachable from o
\* through reported dependencies has an identity and is in the write list.
C5_TransitiveRegistration ==
    status = "building" =>
        \A ord \in DepOrders(deps) : \A o \in Allocated :
            LET w == add_object(Writer, o, ord, {})
            IN ~w.overflow =>
                  \A m \in IndirectReach(kind, deps, {o}) :
                      /\ w.num[m] # None
                      /\ m \in Range(w.objects)

\* a chain o -> m1 -> m2 registered by one call on o
C5_ChainRegistered ==
    \E o \in Allocated, m1 \in Allocated, m2 \in Allocated :
        /\ m1 \in deps[o] /\ m2 \in deps[m1]
        /\ o # m1 /\ m1 # m2 /\ o # m2
        /\ kind[m2] = "Indirect"
        /\ num[o] # None /\ num[m1] = num[o] + 1 /\ num[m2] = num[o] + 2

\* ---------------------------------------------------------------- C6
\* a call of add_object or create_root
Registration ==
    \/ \E o \in Nodes : AddObject(o)
    \/ \E D \in SUBSET Nodes : CreateRoot(D)

C7_ReAddPanics ==
    status = "building" =>
        \A ord \in DepOrders(deps) : \A o \in Allocated :
            (kind[o] = "Indirect" /\ num[o] # None) =>
                add_object(Writer, o, ord, {}).ret # o

\* ---------------------------------------------------------------- C8
\* C8: create_root on a writer that has a root panics and leaves the
\* trailer, the write list, the counter and the identities as they were; a
\* root that is set is never replaced, and the root is an Indirect node.
C8_RootBoundOnce ==
    [][/\ trailer.root # None => trailer'.root = trailer.root
       /\ trailer'.root # None => kind'[trailer'.root] = "Indirect"
       /\ \A D \in SUBSET Nodes :
             (trailer.root # None /\ CreateRoot(D)) =>
                 /\ status' = "panic"
                 /\ panic' = "An object is already root"
                 /\ UNCHANGED <<trailer, objects, cur_num, num>>]_vars

\* a second create_root has failed
C8_SecondRootRefused ==
    /\ status = "panic"
    /\ panic = "An object is already root"
    /\ trailer.root # None
    /\ Len(objects) >= 1

\* ---------------------------------------------------------------- C9
\* C9 as stated: a write without a root does not complete, and emits
\* neither the trailer nor startxref nor the end-of-file marker.
C9_NoTrailerWithoutRoot ==
    (WriteCalled /\ trailer.root = None) =>
        /\ status # "written"
        /\ ~Emitted("trailer")
        /\ ~Emitted("startxref")
        /\ ~Emitted("eof")

\* C9: a write without a root does not complete; it emits neither the
\* trailer's mapping nor startxref nor the end-of-file marker.  When the
\* objects serialise it panics with "Root not set" after the cross-reference
\* table and the line of the trailer keyword, which is the last thing written.
C9_AbortsAfterTrailerKeyword ==
    (WriteCalled /\ trailer.root = None) =>
        /\ status \in {"panic", "stack_overflow"}
        /\ ~Emitted("Size")
        /\ ~Emitted("Root")
        /\ ~Emitted("startxref")
        /\ ~Emitted("eof")
        /\ (panic = "Root not set") = Emitted("trailer")
        /\ (panic = "Root not set") = Emitted("xref")
        /\ Emitted("trailer") => output.buf[Len(output.buf)].t = "trailer"
        /\ panic \in {"Root not set", "No number assigned", ""}

\* a writer with a registered object and no root was written
C9_RootlessWrite ==
    /\ panic = "Root not set"
    /\ trailer.root = None
    /\ Len(objects) >= 1

\* --------------------------------------------------------------- C10
\* C10 as stated: at write time every Indirect node referenced from a
\* registered value has an identity, and the write never panics over a
\* missing identity or a Direct node in the write list.
C10_NeverIdentityPanic ==
    /\ WriteCalled => Closed
    /\ panic \notin IdentityPanics

\* C10: a step that adds no entry to a Dict keeps every Indirect node
\* referenced from a registered value identified; a write of such a graph
\* does not panic over identities, a write of another graph does not
\* complete, and no write panics with "No num" or "Not an indirect object".
C10_ClosedUnlessEntryAdded ==
    [][/\ (Closed /\ \A n \in Allocated : deps'[n] = deps[n]) => Closed'
       /\ (WriteCalled' /\ Closed') => panic' \notin IdentityPanics
       /\ (WriteCalled' /\ ~Closed') => status' # "written"
       /\ panic' \notin {"No num", "Not an indirect object"}]_vars

\* a document whose root references a node that was never passed to
\* add_object has been written
C10_WrittenWithReference ==
    /\ status = "written"
    /\ \E m \in deps[trailer.root] : kind[m] = "Indirect" /\ num[m] > num[trailer.root]
\* ------------------------------------------------- the written bytes
\* the positions of the chunks of kind t in the output
Idx(t) == {i \in 1..Len(output.buf) : output.buf[i].t = t}

\* the position of the only chunk of kind t
TheIdx(t) == CHOOSE i \in Idx(t) : TRUE

RECURSIVE SumBytes(_, _)
\* the number of bytes of the first k chunks of buf
SumBytes(buf, k) == IF k = 0 THEN 0 ELSE ByteLen(buf[k]) + SumBytes(buf, k - 1)

IsObjLine(c) == c.t = "obj"

\* the 'num gen obj' lines of the output, in the order written
ObjLines == SelectSeq(output.buf, IsObjLine)

\* --------------------------------------------------------------- C11
\* C11: a completed write has emitted the header first and once, then one
\* 'num gen obj' ... 'endobj' unit per registered node in registration order,
\* then the cross-reference section, the trailer, startxref with an offset
\* and the end-of-file marker, each once; the end-of-file marker is the last
\* thing written, and only a completed write emits it.
C11_FixedOrder ==
    /\ \A i \in Idx("eof") : i = Len(output.buf) /\ status = "written"
    /\ \A i \in Idx("header") : i = 1
    /\ status = "written" =>
          /\ output.buf[1].t = "header"
          /\ Len(ObjLines) = Len(objects)
          /\ \A k \in 1..Len(objects) :
                /\ ObjLines[k].a = num[objects[k]]
                /\ ObjLines[k].b = gen[objects[k]]
          /\ Cardinality(Idx("endobj")) = Len(objects)
          /\ \A i \in Idx("obj") :
                \E j \in Idx("endobj") :
                    /\ i < j
                    /\ \A m \in Idx("obj") \cup Idx("endobj") :
                          ~(i < m /\ m < j)
          /\ \A j \in Idx("endobj") :
                j + 1 \in Idx("obj") \cup Idx("xref")
          /\ Cardinality(Idx("xref")) = 1
          /\ Cardinality(Idx("trailer")) = 1
          /\ Cardinality(Idx("startxref")) = 1
          /\ Cardinality(Idx("eof")) = 1
          /\ \A i \in Idx("obj") \cup Idx("endobj") : i < TheIdx("xref")
          /\ \A i \in Idx("part") \cup Idx("entry") :
                TheIdx("xref") < i /\ i < TheIdx("trailer")
          /\ TheIdx("xref") < TheIdx("trailer")
          /\ TheIdx("trailer") < TheIdx("startxref")
          /\ TheIdx("startxref") + 1 = TheIdx("eof")

\* a document of two objects, one referencing the other, has been written
C11_TwoUnitsWritten ==
    /\ status = "written"
    /\ Len(objects) = 2
    /\ Emitted("R")
    /\ Emitted("eof")

\* --------------------------------------------------------------- C12
\* C12: the position of the output is the number of bytes written; every
\* entry of the cross-reference table after the free record is in use and
\* belongs to one 'num gen obj' line of the output: it has the number and
\* generation of the registered node of that line, and its offset is the
\* number of bytes written before the line.
C12_OffsetIsBytesBefore ==
    /\ output.pos = SumBytes(output.buf, Len(output.buf))
    /\ Len(crt.entries) = Len(ObjLines) + 1
    /\ \A k \in 2..Len(crt.entries) :
          /\ ~crt.entries[k].free
          /\ \E o \in Range(objects) :
                /\ crt.entries[k].num = num[o]
                /\ crt.entries[k].gen = gen[o]
          /\ \E i \in Idx("obj") :
                /\ output.buf[i].a = crt.entries[k].num
                /\ output.buf[i].b = crt.entries[k].gen
                /\ crt.entries[k].offset = SumBytes(output.buf, i - 1)
    /\ status = "written" => Len(crt.entries) = Len(objects) + 1

\* a written document whose second object lies behind a first one that
\* holds an entry
C12_SecondObjectOffset ==
    /\ status = "written"
    /\ Len(crt.entries) = 3
    /\ crt.entries[3].offset > HeaderLen + 20

\* --------------------------------------------------------------- C13
\* C13: in a written document the number after startxref is the number of
\* bytes written before the xref keyword, which follows the header and the
\* object units directly.
C13_StartxrefIsXrefOffset ==
    status = "written" =>
        /\ output.buf[TheIdx("startxref")].a =
              SumBytes(output.buf, TheIdx("xref") - 1)
        /\ output.buf[TheIdx("xref") - 1].t \in {"header", "endobj"}
        /\ \A i \in 2..(TheIdx("xref") - 1) :
              output.buf[i].t \in {"obj", "endobj", "<<", ">>", "key", "R", "nl"}

\* a written document with an object before the cross-reference section
C13_XrefBehindObjects ==
    /\ status = "written"
    /\ Len(objects) >= 1
    /\ output.buf[TheIdx("startxref")].a > HeaderLen

IsEntryLine(c) == c.t = "entry"

\* the entry lines of the output, in the order written
EntryLines == SelectSeq(output.buf, IsEntryLine)

\* the place of the i-th recorded entry in ascending order of the object
\* numbers, entries of the same number in the order recorded
Rank(i) ==
    1 + Cardinality({j \in 1..Len(crt.entries) :
                        \/ crt.entries[j].num < crt.entries[i].num
                        \/ /\ crt.entries[j].num = crt.entries[i].num
                           /\ j < i})

\* C15: a table written by CRT::write has one line per recorded entry, and
\* the line of an entry stands at the place the entry has in ascending order
\* of the object numbers, whatever the order the entries were recorded in.
C15_AscendingOrder ==
    status = "written" =>
        /\ Len(EntryLines) = Len(crt.entries)
        /\ \A i \in 1..Len(crt.entries) :
              /\ EntryLines[Rank(i)].a = crt.entries[i].offset
              /\ EntryLines[Rank(i)].b = crt.entries[i].gen
              /\ (EntryLines[Rank(i)].c = 1) = crt.entries[i].free

\* a table whose entries were recorded in descending order of their numbers
\* has been written
C15_RecordedDescending ==
    /\ status = "written"
    /\ Len(crt.entries) = 3
    /\ crt.entries[2].num > crt.entries[3].num
    /\ crt.entries[2].offset # crt.entries[3].offset
    /\ Len(EntryLines) = 3

\* --------------------------------------------------------------- C16
\* the object numbers recorded in the table
RecordedNums == {crt.entries[i].num : i \in 1..Len(crt.entries)}

\* C16: the written table has one subsection per contiguous run of object
\* numbers: every subsection header 'start count' is followed by exactly
\* count entry lines, the numbers start .. start + count - 1 are a maximal
\* run of recorded numbers, and every recorded number lies in a subsection.
C16_SubsectionPerRun ==
    (status = "written" /\ Emitted("part")) =>
        /\ output.buf[TheIdx("xref") + 1].t = "part"
        /\ \A i \in Idx("part") :
              LET start == output.buf[i].a
                  count == output.buf[i].b
              IN /\ i + count <= Len(output.buf)
                 /\ \A j \in 1..count : output.buf[i + j].t = "entry"
                 /\ i + count < Len(output.buf) =>
                       output.buf[i + count + 1].t # "entry"
                 /\ \A n \in start..(start + count - 1) : n \in RecordedNums
                 /\ start - 1 \notin RecordedNums
                 /\ start + count \notin RecordedNums
        /\ \A n \in RecordedNums :
              \E i \in Idx("part") :
                  /\ output.buf[i].a <= n
                  /\ n < output.buf[i].a + output.buf[i].b

\* a table with a gap in its object numbers has been written
C16_GapWritten ==
    /\ status = "written"
    /\ RecordedNums = {0, 2}
    /\ Emitted("part")
RECURSIVE Tokenize(_, _, _)
Tokenize(pieces, tokens, token) ==
    IF pieces = <<>>
    THEN IF token = <<>> THEN tokens ELSE Append(tokens, token)
    ELSE IF Head(pieces).t = "sp"
    THEN Tokenize(Tail(pieces),
                  IF token = <<>> THEN tokens ELSE Append(tokens, token),
                  <<>>)
    ELSE IF Head(pieces).t = "name"
    THEN Tokenize(Tail(pieces),
                  IF token = <<>> THEN tokens ELSE Append(tokens, token),
                  <<Head(pieces)>>)
    ELSE Tokenize(Tail(pieces), tokens, Append(token, Head(pieces)))

Tokens(out) == Tokenize(out, <<>>, <<>>)

ColourOps == {"cs", "CS", "scn", "SCN"}

\* a token with bytes of a colour command: a colour space name, colour
\* operands, or one of the colour operators
IsColourToken(token) ==
    \E i \in 1..Len(token) :
        \/ token[i].t \in {"name", "num"}
        \/ token[i].t = "op" /\ token[i].v \in ColourOps

ColourTokens(out) == SelectSeq(Tokens(out), IsColourToken)

\* the commands of one application of colour c to a channel that holds prev:
\* the colour space and its operator when the kind differs, then the
\* operands and the colour-set operator
Application(c, prev, stroke) ==
    IF c = Unset THEN <<>>
    ELSE (IF c.kind # prev.kind
          THEN <<<<NamePiece(c.kind)>>,
                 <<OpPiece(IF stroke THEN "CS" ELSE "cs")>>>>
          ELSE <<>>)
         \o <<<<OperandsPiece(c)>>,
              <<OpPiece(IF stroke THEN "SCN" ELSE "scn")>>>>

\* the operators of the kinds ops in a stream
CountOps(out, ops) ==
    Cardinality({i \in 1..Len(out) : out[i].t = "op" /\ out[i].v \in ops})

AnyRender ==
    \/ \E fill \in Colors \cup {Unset}, stroke \in Colors \cup {Unset} :
          RenderText(fill, stroke)
    \/ \E path \in Paths : RenderPath(path)

\* --------------------------------------------------------------- C18
\* C18: every render adds to the colour commands of the stream exactly the
\* commands of the colours it applies, fill before stroke: for each channel
\* the colour space name and cs / CS if and only if the kind of the colour
\* differs from the kind the channel holds, then the operands and scn / SCN,
\* also when nothing changed; a NoColor context applies no colour.
C18_SpaceCommandIffKindDiffers ==
    [][/\ \A fill \in Colors \cup {Unset}, stroke \in Colors \cup {Unset} :
             RenderText(fill, stroke) =>
                 ColourTokens(stream') =
                     ColourTokens(stream)
                         \o Application(fill, current.fill, FALSE)
                         \o Application(stroke, current.stroke, TRUE)
       /\ \A path \in Paths :
             RenderPath(path) =>
                 ColourTokens(stream') =
                     IF current.context_type = "NoColor"
                     THEN ColourTokens(stream)
                     ELSE ColourTokens(stream)
                              \o Application(path.params.fill, current.fill,
                                             FALSE)
                              \o Application(path.params.stroke,
                                             current.stroke, TRUE)]_vars

\* a GraphicState context has rendered a drawable filled with a colour of
\* another kind than the one it held
C18_KindChanged ==
    /\ current.api = "GraphicState"
    /\ current.fill.kind = "DeviceRGB"
    /\ CountOps(stream, {"cs"}) = 1
    /\ CountOps(stream, {"scn"}) = 1

\* --------------------------------------------------------------- C19
\* C19 as stated: after a render the current fill colour is the fill colour
\* of the drawable if it has one, the current stroke colour its stroke
\* colour if it has one, and only a render changes the current colours.
C19_CurrentIsDrawableColour ==
    [][/\ \A fill \in Colors \cup {Unset}, stroke \in Colors \cup {Unset} :
             RenderText(fill, stroke) =>
                 /\ fill # Unset => current'.fill = fill
                 /\ stroke # Unset => current'.stroke = stroke
       /\ \A path \in Paths :
             RenderPath(path) =>
                 /\ path.fill => current'.fill = path.params.fill
                 /\ path.stroke => current'.stroke = path.params.stroke
       /\ current' # current => AnyRender]_vars

\* C19: in a context that handles colour, after a render the current fill
\* colour is the fill colour of the drawable if it has one and the current
\* stroke colour its stroke colour if it has one; in a NoColor context a
\* render leaves the current colours as they were and writes no colour
\* command; only a render changes the current colours.
C19_CurrentFollowsColouredRender ==
    [][/\ \A fill \in Colors \cup {Unset}, stroke \in Colors \cup {Unset} :
             RenderText(fill, stroke) =>
                 /\ fill # Unset => current'.fill = fill
                 /\ stroke # Unset => current'.stroke = stroke
       /\ \A path \in Paths :
             RenderPath(path) =>
                 IF current.context_type # "NoColor"
                 THEN /\ path.fill => current'.fill = path.params.fill
                      /\ path.stroke => current'.stroke = path.params.stroke
                 ELSE /\ current' = current
                      /\ CountOps(stream', ColourOps) = 0
       /\ current' # current => AnyRender
       /\ current'.context_type = current.context_type]_vars

\* a context holds a fill and a stroke colour set by two renders
C19_BothChannelsSet ==
    /\ current.fill = Color_red
    /\ current.stroke = Color_blue
    /\ Rendered(stream) = 2

\* --------------------------------------------------------------- C20
\* C20: a render of a drawable that is only stroked writes no fill colour
\* command (cs, scn) and leaves the current fill colour as it was; a render
\* of a drawable that is only filled writes no stroke colour command (CS,
\* SCN) and leaves the current stroke colour as it was.
C20_OtherChannelUntouched ==
    [][/\ \A fill \in Colors \cup {Unset}, stroke \in Colors \cup {Unset} :
             RenderText(fill, stroke) =>
                 /\ (fill = Unset /\ stroke # Unset) =>
                       /\ CountOps(stream', {"cs", "scn"})
                              = CountOps(stream, {"cs", "scn"})
                       /\ current'.fill = current.fill
                 /\ (stroke = Unset /\ fill # Unset) =>
                       /\ CountOps(stream', {"CS", "SCN"})
                              = CountOps(stream, {"CS", "SCN"})
                       /\ current'.stroke = current.stroke
       /\ \A path \in Paths :
             RenderPath(path) =>
                 /\ (path.stroke /\ ~path.fill) =>
                       /\ CountOps(stream', {"cs", "scn"})
                              = CountOps(stream, {"cs", "scn"})
                       /\ current'.fill = current.fill
                 /\ (path.fill /\ ~path.stroke) =>
                       /\ CountOps(stream', {"CS", "SCN"})
                              = CountOps(stream, {"CS", "SCN"})
                       /\ current'.stroke = current.stroke]_vars

\* a path that is only stroked has been rendered after a filled one, and
\* the fill colour was set again
C20_StrokedAfterFilled ==
    /\ current.api = "GraphicParameters"
    /\ CountOps(stream, {"f"}) = 1
    /\ CountOps(stream, {"S"}) = 1
    /\ CountOps(stream, {"B"}) = 0
    /\ CountOps(stream, {"scn"}) = 2
    /\ stream[Len(stream)].v = "S"
\* --------------------------------------------------------------- C21
\* examples/pattern.rs: Path::new().rect((10, 10, 190, 190)).fill(red)
RedSquare == Path_fill(Path_rect(Path_new, Rect_square), Color_red)

\* C21: a page (a fresh context that handles colour) that renders the one
\* path RedSquare has a content stream with exactly the commands
\* /DeviceRGB cs, 1 0 0 scn, 10 10 190 190 re, f, in that order.
C21_RedSquareStream ==
    [][(/\ stream = <<>>
        /\ current.context_type = "Normal"
        /\ RenderPath(RedSquare))
       => Tokens(stream') =
              <<<<NamePiece("DeviceRGB")>>, <<OpPiece("cs")>>,
                <<OperandsPiece(Color_red)>>, <<OpPiece("scn")>>,
                <<ArgPiece(Rect_square)>>, <<OpPiece("re")>>,
                <<OpPiece("f")>>>>]_vars

\* the page has rendered the red square and nothing else
C21_RedSquareRendered ==
    /\ current.api = "GraphicParameters"
    /\ current.context_type = "Normal"
    /\ current.fill = Color_red
    /\ Rendered(stream) = 1
    /\ CountOps(stream, {"re"}) = 1
    /\ CountOps(stream, {"f"}) = 1
    /\ CountOps(stream, {"m", "l"}) = 0
\* --------------------------------------------------------------- C22
\* a byte of a colour command, or a space
IsColourPiece(p) ==
    \/ p.t \in {"sp", "name", "num"}
    \/ p.t = "op" /\ p.v \in ColourOps

\* new is old, then colour commands only, then exactly the commands own
AppendsColoursThenOwn(old, new, own) ==
    /\ Len(new) >= Len(old) + Len(own)
    /\ SubSeq(new, 1, Len(old)) = old
    /\ SubSeq(new, Len(new) - Len(own) + 1, Len(new)) = own
    /\ \A i \in (Len(old) + 1)..(Len(new) - Len(own)) : IsColourPiece(new[i])

\* C22: every render leaves what earlier renders wrote in its place and
\* appends behind it first the colour commands of the drawable and then,
\* with nothing between, the drawable's own geometry and operator commands.
C22_OrderPreserving ==
    [][/\ \A fill \in Colors \cup {Unset}, stroke \in Colors \cup {Unset} :
             RenderText(fill, stroke) =>
                 AppendsColoursThenOwn(stream, stream',
                                       GraphicText_render(<<>>))
       /\ \A path \in Paths :
             RenderPath(path) =>
                 AppendsColoursThenOwn(stream, stream',
                                       GraphicPath_render(<<>>, path))]_vars

\* two drawables were rendered, each with colour commands of its own
C22_TwoColouredRenders ==
    /\ Rendered(stream) = 2
    /\ CountOps(stream, {"scn"}) = 2
    /\ stream[Len(stream)].t = "op"
    /\ stream[Len(stream)].v \in {"ET", "f", "B"}
\* --------------------------------------------------------------- C23
IsPrefix(a, b) == Len(a) <= Len(b) /\ SubSeq(b, 1, Len(a)) = a

\* C23: as long as the builder is not compiled, every step leaves the
\* buffer as it was or longer, with the old content as a prefix of the new
\* one, and so does every single command and colour write on the buffer.
C23_AppendOnly ==
    [][/\ ~consumed' =>
             /\ IsPrefix(stream, stream')
             /\ data_len(stream) <= data_len(stream')
       /\ \A op \in {"re", "f", "BT"} :
             /\ IsPrefix(stream, command(stream, <<>>, <<OpPiece(op)>>))
             /\ IsPrefix(stream, command(stream, <<ArgPiece(Rect_square)>>,
                                         <<OpPiece(op)>>))
       /\ \A c \in Colors, prev \in Colors, stroke \in BOOLEAN :
             /\ IsPrefix(stream, Color_write(c, prev, stroke, stream))
             /\ IsPrefix(stream, ctx_Color_write(c, prev, stroke, stream))]_vars

\* a buffer that grew by two renders
C23_GrownTwice ==
    /\ ~consumed
    /\ Rendered(stream) = 2
    /\ Len(stream) > 4

\* --------------------------------------------------------------- C24
\* C24: once a builder was compiled into a Stream, no render and no
\* compile is a step of that builder any more.
C24_NothingAfterCompile ==
    [][block.made => ~(AnyRender \/ Compile)]_vars

\* a builder that was rendered into and then compiled
C24_Compiled ==
    /\ consumed
    /\ block.made
    /\ Rendered(block.data) >= 1

\* --------------------------------------------------------------- C25
\* C25: compile of a builder into which nothing was rendered makes a
\* Stream whose payload has no byte and whose header holds Length 0.
C25_EmptyStream ==
    [][(stream = <<>> /\ Compile) =>
           /\ block'.made
           /\ block'.data = <<>>
           /\ data_len(block'.data) = 0
           /\ "Length" \in DOMAIN items'
           /\ items'["Length"] = usize(0)]_vars

\* an empty builder was compiled
C25_EmptyCompiled ==
    /\ consumed
    /\ block.made
    /\ block.data = <<>>
    /\ Len(objects) = 1
\* --------------------------------------------------------------- C26
\* the written header has the entry "/Length v" with v the number n
LengthWritten(buf, n) ==
    \E i \in 1..(Len(buf) - 2) :
        /\ buf[i].t = "name"
        /\ buf[i].a = "Length"
        /\ buf[i + 1].t = "sp"
        /\ buf[i + 2].t = "usize"
        /\ buf[i + 2].a = n

\* C26: a written Stream carries under Length the number of bytes of its
\* payload, whatever add_entry calls were made on the shared header mapping
\* between Stream::new and the write.
C26_LengthIsPayloadBytes ==
    (status = "written" /\ block.made)
        => LengthWritten(output.buf, data_len(block.data))

\* a Stream was written whose header mapping got an entry after Stream::new
C26_HeaderChangedThenWritten ==
    /\ status = "written"
    /\ block.made
    /\ \E i \in 1..(Len(calls) - 1) :
          /\ calls[i] = [n |-> "Length", data |-> usize(data_len(block.data))]
          /\ calls[i + 1].data # Unset

\* --------------------------------------------------------------- C30
\* the call that supplied the value key k holds: the last one with a value
IsLatest(i, k) ==
    /\ calls[i].n = k
    /\ calls[i].data # Unset
    /\ \A j \in (i + 1)..Len(calls) :
          ~(calls[j].n = k /\ calls[j].data # Unset)

\* C30: after any sequence of add_entry / add_optional calls the mapping
\* holds exactly the keys some call supplied a value for, each once and
\* with the value of the latest such call (a call with an absent value
\* changes nothing), and is_empty is true exactly when no call supplied a
\* value.
C30_LastWriteWins ==
    /\ \A k \in Names :
          k \in DOMAIN items <=> \E i \in 1..Len(calls) : IsLatest(i, k)
    /\ \A k \in DOMAIN items :
          \A i \in 1..Len(calls) : IsLatest(i, k) => items[k] = calls[i].data
    /\ Dict_is_empty(items)
           <=> \A i \in 1..Len(calls) : calls[i].data = Unset

\* a key was given two different values, and a call came with no value
C30_Overwritten ==
    /\ \E i \in 1..Len(calls), j \in 1..Len(calls) :
          /\ i < j
          /\ calls[i].n = calls[j].n
          /\ calls[i].data # Unset
          /\ calls[j].data # Unset
          /\ calls[i].data # calls[j].data
    /\ \E i \in 1..Len(calls) : calls[i].data = Unset
\* --------------------------------------------------------------- C27
\* the places of the output that refer to node o: its entries in Dicts, and
\* the Root entry of the trailer if o is the root
RefPlaces(o) ==
    {i \in 1..Len(output.buf) :
        \/ output.buf[i].t = "key" /\ output.buf[i].a = o
        \/ output.buf[i].t = "Root" /\ trailer.root = o}

\* the 'num gen obj' lines of node o
UnitsOf(o) ==
    {i \in 1..Len(output.buf) :
        /\ output.buf[i].t = "obj"
        /\ output.buf[i].a = num[o]
        /\ output.buf[i].b = gen[o]}

\* the values written in full: each begins with "<<"
FullValues == {i \in 1..Len(output.buf) : output.buf[i].t = "<<"}

\* C27: in a completed write every registered Indirect node has exactly one
\* 'num gen obj' line, directly followed by its value; every place that
\* refers to an Indirect node holds the token 'num gen R' with the node's
\* number and generation; the only values written in full are those of the
\* units, those of Direct nodes at the places that refer to them, and the
\* trailer's mapping.
C27_ValueOnceElsewhereReference ==
    status = "written" =>
        /\ \A o \in Nodes :
              kind[o] = "Indirect" =>
                  /\ Cardinality(UnitsOf(o))
                         = (IF num[o] # None THEN 1 ELSE 0)
                  /\ \A i \in UnitsOf(o) : output.buf[i + 1].t = "<<"
                  /\ \A i \in RefPlaces(o) :
                        output.buf[i + 1] = Chunk("R", num[o], gen[o], 0)
        /\ Cardinality(FullValues)
               = Len(objects) + 1
                   + Cardinality(UNION {RefPlaces(o) :
                                           o \in {n \in Nodes :
                                                     kind[n] = "Direct"}})

\* a written document in which one Indirect node is referred to from two
\* places
C27_SharedNodeWritten ==
    /\ status = "written"
    /\ \E o \in Nodes :
          /\ kind[o] = "Indirect"
          /\ Cardinality(RefPlaces(o)) >= 2
          /\ Cardinality(UnitsOf(o)) = 1
\* --------------------------------------------------------------- C29
\* the registered nodes whose value was never supplied
UnsetRegistered == Range(objects) \cap unset

\* every entry of a registered node has an identity
EntriesRegistered ==
    \A o \in Range(objects) : \A m \in deps[o] : num[m] # None

\* C29: the value of a deferred-value node is supplied at most once.  An
\* assign on a node without a value returns Ok, sets the value and ends the
\* node's being without one; an assign on a node that has a value returns
\* AlreadyAssigned and leaves every value as it was; no step gives a node
\* that has a value another one or takes it away; and a write that reaches a
\* registered node whose value was never supplied does not complete: it
\* fails with MissingValue when every entry it writes before has an
\* identity.
C29_DeferredValueOnce ==
    [][/\ \A o \in Nodes, D \in SUBSET Nodes :
             ObjectAssign(o, D) =>
                 IF o \in unset
                 THEN /\ result' = "Ok"
                      /\ deps'[o] = D
                      /\ o \notin unset'
                 ELSE /\ result' = "AlreadyAssigned"
                      /\ deps' = deps
                      /\ unset' = unset
       /\ \A o \in Nodes :
             kind[o] = "Indirect" /\ o \notin unset =>
                 deps'[o] = deps[o] /\ o \notin unset'
       /\ (status = "building" /\ output' # output /\ UnsetRegistered # {}) =>
             /\ status' # "written"
             /\ EntriesRegistered => status' = "missing_value"]_vars

\* a second assign was refused and the first value is in place
SecondAssignRefused ==
    /\ result = "AlreadyAssigned"
    /\ \E o \in Nodes :
          /\ kind[o] = "Indirect"
          /\ o \notin unset
          /\ deps[o] # {}
          /\ num[o] # None

\* a second assign was refused, the first value is in place, and the write
\* met a registered node without a value
C29_RefusedAndMissing ==
    /\ SecondAssignRefused
    /\ status = "missing_value"
    /\ UnsetRegistered # {}
\* --------------------------------------------------------------- C28
\* the trailer's Root entry is the reference token of node o
RootRefers(o) ==
    \E i \in 1..(Len(output.buf) - 1) :
        /\ output.buf[i].t = "Root"
        /\ output.buf[i + 1] = Chunk("R", num[o], gen[o], 0)

\* C28: PDF::write of a document of one page completes, and the objects it
\* has written are exactly the content stream, the page, whose Dict holds the
\* content stream, the pages node, the outlines node and the catalog, each
\* with a number of its own, and the trailer's Root is the reference to the
\* catalog.
C28_OnePageDocument ==
    (Len(pages) = 1 /\ pc # "new") =>
        /\ status \in {"building", "written"}
        /\ pc = "done" =>
              /\ Len(objects) = 5
              /\ Range(objects) = {outlines, pages_node, contents_of(1),
                                   page_of(1), catalog}
              /\ \A o \in Range(objects), p \in Range(objects) :
                    num[o] = num[p] => o = p
              /\ Cardinality({i \in 1..Len(output.buf) :
                                 output.buf[i].t = "obj"}) = 5
              /\ contents_of(1) \in deps[page_of(1)]
              /\ trailer.root = catalog
              /\ RootRefers(catalog)

\* PDF::write of a document with a page has registered the page and the
\* pages node and is killed when it registers the catalog
C28_OnePageOverflow ==
    /\ Len(pages) = 1
    /\ status = "stack_overflow"
    /\ pc = "pages"
    /\ num[page_of(1)] # None
    /\ num[pages_node] # None
\* --------------------------------------------------------------- C31
\* the current subpath of the builder, as a subpath of a GraphicPath
CurrentSubpath == [sub |-> "Parts", parts |-> builder.cur]

\* C31: every terminal operation adds the current subpath to the path only
\* if it has more than one point, and the render of the GraphicPath of a
\* builder whose current subpath has at most one point is the render of the
\* subpaths that were there before.
C31_ShortSubpathDropped ==
    [][/\ (graphic = <<>> /\ graphic' # <<>>) =>
             graphic'[1].path = IF Len(builder.cur) > 1
                                THEN Append(builder.path, CurrentSubpath)
                                ELSE builder.path
       /\ (stream = <<>> /\ stream' # <<>> /\ Len(builder.cur) <= 1) =>
             stream' = GraphicPath_render(
                           GraphicParameters_update(GraphicContext,
                                                    graphic[1].params).stream,
                           [graphic[1] EXCEPT !.path = builder.path])]_vars

\* a fill of a builder whose current subpath is one point was rendered, and
\* the point's command is in the stream
C31_OnePointFilled ==
    /\ graphic # <<>>
    /\ graphic[1].fill
    /\ Len(builder.cur) = 1
    /\ \E i \in 1..Len(stream) : stream[i] = OpPiece("m")

\* --------------------------------------------------------------- C36
\* the painting operators
PaintOps == {"S", "f", "f*", "B", "B*"}

\* the operator GraphicPath g is painted with
PaintOp(g) ==
    IF g.fill /\ g.stroke THEN IF g.even_odd THEN "B*" ELSE "B"
    ELSE IF g.fill THEN IF g.even_odd THEN "f*" ELSE "f"
    ELSE "S"

\* C36: every GraphicPath a terminal operation makes has fill or stroke
\* set, and its render has exactly one painting operator, the last piece of
\* the stream: S for stroke only, f or f* for fill only, B or B* for both,
\* starred exactly when the even-odd rule was asked for.
C36_OnePaintingOperator ==
    /\ graphic # <<>> => graphic[1].fill \/ graphic[1].stroke
    /\ (graphic # <<>> /\ stream # <<>>) =>
          /\ stream[Len(stream)] = OpPiece(PaintOp(graphic[1]))
          /\ Cardinality({i \in 1..Len(stream) :
                             /\ stream[i].t = "op"
                             /\ stream[i].v \in PaintOps \cup {"unreachable"}})
                 = 1

\* a fill with the even-odd rule was rendered
C36_EvenOddFillRendered ==
    /\ graphic # <<>>
    /\ graphic[1].fill
    /\ ~graphic[1].stroke
    /\ graphic[1].even_odd
    /\ stream # <<>>
    /\ stream[Len(stream)] = OpPiece("f*")
\* --------------------------------------------------------------- C32
\* C32: add_object terminates on every graph the program can build: from
\* every state, for every node and every iteration order of the Dicts, the
\* call returns.
C32_AddObjectTerminates ==
    \A o \in Nodes :
        kind[o] # "Absent" =>
            \A ord \in DepOrders(deps) : ~add_object(Writer, o, ord, {}).overflow

\* two registered nodes that hold each other, as a page and the pages node
\* do, and the add_object call that did not return
C32_CycleOverflow ==
    /\ status = "stack_overflow"
    /\ output.buf = <<>>
    /\ \E o \in Nodes, p \in Nodes :
          o # p /\ p \in deps[o] /\ o \in deps[p]
\* --------------------------------------------------------------- C33
\* the registered node with number k
NodeOfNum(k) == CHOOSE o \in Range(objects) : num[o] = k

\* C33: in a document written by PDFWrite with N registered objects the
\* cross-reference section has the one subsection header '0 N+1', followed
\* by N + 1 entry lines; the first is the free record of object 0, and line
\* k + 1 is in use and carries the generation of the object with number k
\* and the number of bytes written before its 'k gen obj' line; every
\* number 1..N belongs to exactly one registered object.
C33_OneSubsectionAllNumbers ==
    status = "written" =>
        /\ Cardinality(Idx("part")) = 1
        /\ output.buf[TheIdx("xref") + 1] =
              Chunk("part", 0, Len(objects) + 1, 0)
        /\ Len(EntryLines) = Len(objects) + 1
        /\ \A j \in 1..(Len(objects) + 1) :
              output.buf[TheIdx("xref") + 1 + j] = EntryLines[j]
        /\ EntryLines[1] = Chunk("entry", 0, FreeGen, 1)
        /\ \A k \in 1..Len(objects) :
              /\ Cardinality({o \in Range(objects) : num[o] = k}) = 1
              /\ EntryLines[k + 1].b = gen[NodeOfNum(k)]
              /\ EntryLines[k + 1].c = 0
              /\ \E i \in Idx("obj") :
                    /\ output.buf[i].a = k
                    /\ output.buf[i].b = gen[NodeOfNum(k)]
                    /\ EntryLines[k + 1].a = SumBytes(output.buf, i - 1)

\* a document with two registered objects has been written
C33_TwoObjectsIndexed ==
    /\ status = "written"
    /\ Len(objects) = 2
    /\ Len(EntryLines) = 3
    /\ EntryLines[2].a < EntryLines[3].a
\* --------------------------------------------------------------- C34
\* the bytes the sink has accepted
Accepted == SumBytes(output.buf, Len(output.buf))

\* C34: the position of the Output is the number of bytes the sink has
\* accepted, in every state; a call changes it by the bytes the sink accepts
\* in that call, which is nothing for a failed write and for flush; it never
\* decreases, and what the sink has accepted is only extended.
C34_PosIsBytesAccepted ==
    [][/\ output.pos = Accepted
       /\ output'.pos = Accepted'
       /\ output'.pos >= output.pos
       /\ IsPrefix(output.buf, output'.buf)
       /\ (output'.failed /\ ~output.failed) => output'.pos = output.pos
       /\ output'.buf = output.buf => output'.pos = output.pos]_vars

\* a partial write, a failed write and a flush have happened, and two
\* bytes of three were accepted
C34_PartialFailedFlushed ==
    /\ output.failed
    /\ output.calls >= 3
    /\ output.buf = <<Chunk("data", 2, 0, 0)>>
    /\ output.pos = 2
\* ---------------------------------------------------------------- C35
\* C35: every cross-reference entry line written is 20 bytes long: the
\* offset padded to 10 digits, a space, the generation padded to 5 digits,
\* a space, the flag, a space and a newline, whatever offset and
\* generation were recorded.
C35_EntryLinesTwentyBytes ==
    \A i \in 1..Len(EntryLines) : ByteLen(EntryLines[i]) = 20

\* a table with an entry of generation 65535 was written, and its line is
\* 20 bytes long
C35_FiveDigitGenerationWritten ==
    /\ status = "written"
    /\ \E i \in 1..Len(EntryLines) :
          /\ EntryLines[i].b = FreeGen
          /\ ByteLen(EntryLines[i]) = 20

\* ---------------------------------------------------------------- C37
\* the runs of parts that carry a font+size, and those that carry a position
FontRuns(parts) == {i \in 1..Len(parts) : parts[i].font # NoUpdate}

PosRuns(parts) == {i \in 1..Len(parts) : parts[i].pos # NoUpdate}

\* the greatest member of a non-empty set of run numbers
LastOf(I) == CHOOSE i \in I : \A j \in I : j <= i

\* the font+size and the position in effect for the last run of parts: the
\* ones the last Tf and the last Td before its Tj set
FontInEffect(parts) == parts[LastOf(FontRuns(parts))].font[1]

PosInEffect(parts) == parts[LastOf(PosRuns(parts))].pos[1]

\* the run a text call appends
NewRun == text'.parts[Len(text'.parts)]

WriteResults ==
    {PDFWrite_write(ord, sizeFirst, None) :
        ord \in DepOrders(deps), sizeFirst \in TrailerOrders}

\* the results a registration of node o can have
AddResults(o) == {add_object(Writer, o, ord, {}) : ord \in DepOrders(deps)}

\* the writes of the document built so far all produce the same bytes and
\* the same recorded offsets
WriteDeterministic ==
    \A w1 \in WriteResults, w2 \in WriteResults :
        w1.out.buf = w2.out.buf /\ w1.crt = w2.crt

\* C38: building and writing are deterministic: whatever was built so far,
\* registering a node gives the same numbers and the same registration
\* order in every run, and writing gives the same offsets and the same
\* bytes, the order of the entries of every mapping included.
C38_BuildAndWriteDeterministic ==
    status = "building" =>
        /\ \A o \in Nodes : kind[o] # "Absent" => Cardinality(AddResults(o)) = 1
        /\ WriteDeterministic

\* a document was written with Root before Size in its trailer, where
\* another run writes Size first
C38_RootBeforeSize ==
    /\ status = "written"
    /\ \E i \in 1..Len(output.buf), j \in 1..Len(output.buf) :
          i < j /\ output.buf[i].t = "Root" /\ output.buf[j].t = "Size"

=============================================================================
